---- MODULE Spec2Model ----
(***************************************************************************)
(* Model of the authenticated request pipeline of the Oway SDK:            *)
(*   - the TypeScript HttpClient (token cache with a single-flight         *)
(*     refresh promise, request executor with header composition, error    *)
(*     records, retry and backoff),                                        *)
(*   - the Go Client token cache (double-checked locking on tokenMutex),   *)
(*   - the retry classifiers OwayError.isRetryable and Error.IsRetryable.  *)
(* Time is in milliseconds, as Date.now() is.                              *)
(***************************************************************************)
EXTENDS Integers, Sequences, FiniteSets, TLC

\* ------------------------------------------------------------------ bounds
NumCallers == 2
MaxTicks == 1
StartTime == 1000000

\* Spec: the concurrent getAccessToken calls made on one client instance
Callers == 1..NumCallers
\* SpecReq, SpecHdr: two overlapping request() calls on one client instance
ReqCallers == {1, 2}
TickSteps == {1000}

\* --------------------------------------------------------- program constants
\* 5 * 60 * 1000 ms: the refresh buffer of both clients
SafetyMargin == 5 * 60 * 1000

NoTok == ""
NoStatus == 0
NULL == 0
\* undefined / "" for a request id, a company key or a header value
NoId == ""
NoKey == ""

TokValues == {"tokA", "tokB"}
ExpiresInValues == {0, 300, 301}

\* ----------------------------------------------------------- token endpoint
\* What the token endpoint can answer: a transport failure, an error status,
\* or a success status with no body ("none"), with a body that is not JSON,
\* is JSON null, or is an object in one of the two casings (a missing field
\* is NoTok / 0).
TokenResponses ==
    {[kind |-> "neterr", status |-> NoStatus, shape |-> "none", tok |-> NoTok, exp |-> 0]}
    \cup {[kind |-> "http", status |-> s, shape |-> "none", tok |-> NoTok, exp |-> 0] : s \in {401, 500}}
    \cup {[kind |-> "http", status |-> 200, shape |-> sh, tok |-> NoTok, exp |-> 0] : sh \in {"none", "invalid", "null"}}
    \cup {[kind |-> "http", status |-> 200, shape |-> sh, tok |-> t, exp |-> e] :
            sh \in {"camel", "snake"}, t \in TokValues \cup {NoTok}, e \in ExpiresInValues}

\* No answer of the token endpoint yet, or one that is not well formed.
NoTokenResponse == [kind |-> "none", status |-> NoStatus, shape |-> "none", tok |-> NoTok, exp |-> 0]

\* A 200 answer of the token endpoint whose body names a token and a
\* positive lifetime, in either casing.
WellFormedTokenResponse(x) ==
    /\ x.kind = "http" /\ x.status = 200
    /\ x.shape \in {"camel", "snake"}
    /\ x.tok # NoTok /\ x.exp > 0

\* What a refresh keeps of the answer it received: the answer when it is
\* well formed.
Offered(resp) == IF WellFormedTokenResponse(resp) THEN resp ELSE NoTokenResponse

NoErr == [isOway |-> FALSE, code |-> "", status |-> NoStatus, src |-> NULL, msg |-> "", rid |-> NoId]
NoResult == [kind |-> "none", tok |-> NoTok, err |-> NoErr]
OkResult(t) == [kind |-> "ok", tok |-> t, err |-> NoErr]
ErrResult(e) == [kind |-> "err", tok |-> NoTok, err |-> e]

\* response.ok of fetch
ResponseOk(status) == status >= 200 /\ status <= 299

VARIABLES
    lang,                 \* "ts" or "go": which client this behaviour runs
    now,                  \* Date.now() / time.Now()
    ticks,                \* number of clock steps taken
    accessToken,          \* HttpClient.accessToken / Client.token
    tokenExpiry,          \* HttpClient.tokenExpiry / Client.tokenExpiry
    tokenRefreshPromise,  \* HttpClient.tokenRefreshPromise: NULL or a refresh id
    tokenMutex,           \* Client.tokenMutex: NULL or the goroutine holding the write lock
    refreshes,            \* one record per request sent to the token endpoint; `at` is
                          \* the time at which a successful answer was stored, `herd`
                          \* the goroutines waiting for the write lock when it arrived
    tokInFlight,          \* token-endpoint requests sent and not yet answered
    c,                    \* per caller: the state of its getAccessToken call
    maxRetries,           \* HttpClient.config.maxRetries
    apiKey,               \* HttpClient.config.apiKey: NoKey or the default company key
    rq,                   \* per caller: the state of its request() call
    cls,                  \* a status code and what the two classifiers answer for it
    cfg,                  \* the configuration passed to the constructor and what became of it
    san,                  \* an object handed to sanitizeForLogging and what it returned
    logged,               \* the log events emitted by the latest step
    api,                  \* a call through a resource facade or the tool adapter
    peer                  \* the token state of a second client instance of the process

vars == <<lang, now, ticks, accessToken, tokenExpiry, tokenRefreshPromise,
          tokenMutex, refreshes, tokInFlight, c, maxRetries, apiKey, rq, cls, cfg, san, logged, api, peer>>

\* ------------------------------------------------------------ construction
NoCredential == ""

\* A constructor that only looks at the client id.
ConstructorRejectsMissingIdOnly(clientId, clientSecret) == clientId = NoCredential

\* TS: if (!config.clientId || !config.clientSecret) throw new OwayError(...)
\* Go: if config.ClientID == "" || config.ClientSecret == "" { return nil, ... }
ConstructorRejects(clientId, clientSecret) ==
    clientId = NoCredential \/ clientSecret = NoCredential

\* URLs: a base URL is a string (NoUrl when not configured), a token URL is
\* a base followed by a path (NoTokenUrl when not configured).
NoUrl == ""
NoTokenUrl == <<>>
Sandbox == "https://rest-api.sandbox.oway.io"
Production == "https://rest-api.oway.io"
TokenPath == "/v1/auth/token"
Url(base, path) == <<base, path>>

\* TS: config.baseUrl || process.env.OWAY_BASE_URL || 'https://rest-api.sandbox.oway.io'
\* Go: if config.BaseURL == "" { config.BaseURL = "https://rest-api.sandbox.oway.io" }
ResolveBaseUrl(language, baseUrl, envBaseUrl) ==
    IF baseUrl # NoUrl THEN baseUrl
    ELSE IF language = "ts" /\ envBaseUrl # NoUrl THEN envBaseUrl
    ELSE Sandbox

\* TS: config.tokenUrl || (config.baseUrl || process.env.OWAY_BASE_URL || sandbox) + '/v1/auth/token'
\* Go: if config.TokenURL == "" { config.TokenURL = "https://rest-api.sandbox.oway.io/v1/auth/token" }
ResolveTokenUrl(language, tokenUrl, baseUrl, envBaseUrl) ==
    IF tokenUrl # NoTokenUrl THEN tokenUrl
    ELSE IF language = "ts" THEN Url(ResolveBaseUrl(language, baseUrl, envBaseUrl), TokenPath)
    ELSE Url(Sandbox, TokenPath)

\* A client that was constructed with both credentials and no URLs.
\* argBaseUrl, argTokenUrl: what the caller configured; envBaseUrl: the
\* environment variable OWAY_BASE_URL; baseUrl, tokenUrl: what the client uses.
BuiltConfig == [state |-> "built", clientId |-> "cid", clientSecret |-> "sec",
                debug |-> FALSE, logger |-> FALSE,
                argBaseUrl |-> NoUrl, argTokenUrl |-> NoTokenUrl, envBaseUrl |-> NoUrl,
                baseUrl |-> Sandbox, tokenUrl |-> Url(Sandbox, TokenPath)]

IdleCall == [pc |-> "idle", via |-> "none", ref |-> NULL, result |-> NoResult]

\* No headers: an empty object.
NoHeaders == [n \in {} |-> ""]

\* The method and the path of a request made directly with request().
Method == "GET"
Path == "/v1/resource"

\* A step that emits no log event.  The events of a step are recorded
\* twice: as the run emits them (run), and as the same step emits them in a
\* run whose secrets are the other ones (twin).
NoEvents == [run |-> <<>>, twin |-> <<>>]

\* ------------------------------------------------- TS sanitizeForLogging()
\* A logged value: a primitive (string, number, boolean, null), an object or
\* an array.  Objects and arrays hold their entries in the order of
\* Object.entries: <<key, value>>, a key being a sequence of characters.
Prim(v) == [t |-> "prim", v |-> v, n |-> 0, f |-> <<>>]
Num(n) == [t |-> "num", v |-> "", n |-> n, f |-> <<>>]
Bool(b) == Prim(IF b THEN "true" ELSE "false")
Undefined == Prim("undefined")
Obj(entries) == [t |-> "obj", v |-> "", n |-> 0, f |-> entries]
Arr(entries) == [t |-> "arr", v |-> "", n |-> 0, f |-> entries]
\* value && typeof value === 'object'
IsObject(x) == x.t \in {"obj", "arr"}
\* the key of the first element of an array
Index0 == <<"0">>
Redacted == Prim("[REDACTED]")

UpperChars == <<"A", "B", "C", "D", "E", "F", "G", "H", "I", "J", "K", "L", "M",
                "N", "O", "P", "Q", "R", "S", "T", "U", "V", "W", "X", "Y", "Z">>
LowerChars == <<"a", "b", "c", "d", "e", "f", "g", "h", "i", "j", "k", "l", "m",
                "n", "o", "p", "q", "r", "s", "t", "u", "v", "w", "x", "y", "z">>

\* String.prototype.toLowerCase
LowerOf == [u \in {UpperChars[i] : i \in DOMAIN UpperChars} |->
               LowerChars[CHOOSE i \in DOMAIN UpperChars : UpperChars[i] = u]]
LowerChar(ch) == IF ch \in DOMAIN LowerOf THEN LowerOf[ch] ELSE ch
ToLowerCase(str) == [i \in DOMAIN str |-> LowerChar(str[i])]

\* String.prototype.includes
Includes(str, sub) ==
    \E i \in 0..(Len(str) - Len(sub)) : SubSeq(str, i + 1, i + Len(sub)) = sub

\* const sensitive = ['apiKey', 'token', 'authorization', 'password', 'secret']
Sensitive == { <<"a", "p", "i", "K", "e", "y">>,
               <<"t", "o", "k", "e", "n">>,
               <<"a", "u", "t", "h", "o", "r", "i", "z", "a", "t", "i", "o", "n">>,
               <<"p", "a", "s", "s", "w", "o", "r", "d">>,
               <<"s", "e", "c", "r", "e", "t">> }

\* const lowerKey = key.toLowerCase(); sensitive.some(s => lowerKey.includes(s))
IsSensitiveKey(key) ==
    LET lowerKey == ToLowerCase(key)
    IN \E s \in Sensitive : Includes(lowerKey, s)

RECURSIVE SanitizeForLogging(_)
SanitizeForLogging(obj) ==
    IF ~IsObject(obj) THEN obj
    ELSE [obj EXCEPT !.f =
            [i \in DOMAIN obj.f |->
                <<obj.f[i][1],
                  IF IsSensitiveKey(obj.f[i][1]) THEN Redacted
                  ELSE IF IsObject(obj.f[i][2]) THEN SanitizeForLogging(obj.f[i][2])
                  ELSE obj.f[i][2]>>]]

\* Keys of logged objects.
KeyApiKey == <<"a", "p", "i", "K", "e", "y">>
KeyXApiKey == <<"x", "-", "o", "w", "a", "y", "-", "a", "p", "i", "-", "k", "e", "y">>
KeyToken == <<"t", "o", "k", "e", "n">>
KeyAccessToken == <<"a", "c", "c", "e", "s", "s", "T", "o", "k", "e", "n">>
KeyAuthorization == <<"A", "u", "t", "h", "o", "r", "i", "z", "a", "t", "i", "o", "n">>
KeyPassword == <<"p", "a", "s", "s", "w", "o", "r", "d">>
KeyClientSecret == <<"c", "l", "i", "e", "n", "t", "S", "e", "c", "r", "e", "t">>
KeyNested == <<"n", "e", "s", "t", "e", "d">>
KeyName == <<"n", "a", "m", "e">>
SanKeys == {KeyApiKey, KeyXApiKey, KeyToken, KeyAccessToken, KeyAuthorization,
            KeyPassword, KeyClientSecret, KeyNested, KeyName}

\* The objects handed to sanitizeForLogging: primitives, objects of one or
\* two entries, and objects and arrays nested up to three levels deep.
SanLeaves == {Prim("v"), Prim("null")}
SanInner == {Obj(<< <<k, Prim("w")>> >>) : k \in SanKeys}
SanMiddle == SanInner \cup {Arr(<< <<Index0, x>> >>) : x \in SanInner \cup {Prim("v")}}
                      \cup {Obj(<< <<KeyNested, x>> >>) : x \in SanInner}
SanInputs ==
    SanLeaves
    \cup {Obj(<< <<k, x>> >>) : k \in SanKeys, x \in SanLeaves \cup SanMiddle}
    \cup {Arr(<< <<Index0, x>> >>) : x \in SanMiddle}
    \cup {Obj(<< <<KeyApiKey, Prim("oway_sk_live_abcdef")>>, <<KeyNested, x>> >>) : x \in SanInner}

IdleSan == [in |-> Prim("null"), out |-> Prim("null"), done |-> FALSE]

\* One call of sanitizeForLogging.
Sanitize ==
    /\ ~san.done
    /\ logged' = NoEvents
    /\ san' = [san EXCEPT !.out = SanitizeForLogging(san.in), !.done = TRUE]
    /\ UNCHANGED <<peer, api, cfg, cls, apiKey, maxRetries, rq, lang, now, ticks, accessToken, tokenExpiry,
                   tokenRefreshPromise, tokenMutex, refreshes, tokInFlight, c>>

\* ------------------------------------------------------------ TS log()
\* Keys of the objects the client passes to log().
KeyRequestId == <<"r", "e", "q", "u", "e", "s", "t", "I", "d">>
KeyHasBody == <<"h", "a", "s", "B", "o", "d", "y">>
KeyQuery == <<"q", "u", "e", "r", "y">>
KeyMethod == <<"m", "e", "t", "h", "o", "d">>
KeyPath == <<"p", "a", "t", "h">>
KeyStatus == <<"s", "t", "a", "t", "u", "s">>
KeyAttempt == <<"a", "t", "t", "e", "m", "p", "t">>
KeyIsRetryable == <<"i", "s", "R", "e", "t", "r", "y", "a", "b", "l", "e">>
KeyCode == <<"c", "o", "d", "e">>
KeyStatusCode == <<"s", "t", "a", "t", "u", "s", "C", "o", "d", "e">>
KeyAttempts == <<"a", "t", "t", "e", "m", "p", "t", "s">>
KeyMaxRetries == <<"m", "a", "x", "R", "e", "t", "r", "i", "e", "s">>
KeyDelayMs == <<"d", "e", "l", "a", "y", "M", "s">>
KeyError == <<"e", "r", "r", "o", "r">>
KeyExpiresAt == <<"e", "x", "p", "i", "r", "e", "s", "A", "t">>
KeyBaseUrl == <<"b", "a", "s", "e", "U", "r", "l">>
KeyAuthMode == <<"a", "u", "t", "h", "M", "o", "d", "e">>
KeyHasDefaultApiKey == <<"h", "a", "s", "D", "e", "f", "a", "u", "l", "t", "A", "p", "i", "K", "e", "y">>
KeyHeaders == <<"h", "e", "a", "d", "e", "r", "s">>

\* What is in scope where the client calls log(): this.config with the
\* client secret and the default tenant key, the cached token, and inside
\* request() the token, the tenant key and the headers of the call, its
\* method and path and whether it has a body (outside request(): those of a
\* plain GET).
Scope(token, key, headers) ==
    [clientSecret |-> cfg.clientSecret, apiKey |-> apiKey, debug |-> cfg.debug,
     logger |-> cfg.logger, baseUrl |-> cfg.baseUrl, accessToken |-> accessToken,
     token |-> token, key |-> key, headers |-> headers,
     method |-> Method, path |-> Path, hasBody |-> FALSE]

\* The secret values of a run, each with the value it has in a second run
\* that differs from this one in its secrets only.
SecretTwins ==
    { <<"sec", "sec*">>, <<"dk", "dk*">>, <<"ck", "ck*">>, <<"ck-2", "ck-2*">>,
      <<"hk", "hk*">>, <<"tokA", "tokA*">>, <<"tokB", "tokB*">>,
      <<"Bearer tokA", "Bearer tokA*">>, <<"Bearer tokB", "Bearer tokB*">> }
SecretValues == {x[1] : x \in SecretTwins}
TwinValue(v) ==
    IF v \in SecretValues THEN (CHOOSE x \in SecretTwins : x[1] = v)[2] ELSE v
TwinScope(s) ==
    [s EXCEPT !.clientSecret = TwinValue(@), !.apiKey = TwinValue(@),
              !.accessToken = TwinValue(@), !.token = TwinValue(@), !.key = TwinValue(@),
              !.headers = [n \in DOMAIN @ |-> TwinValue(@[n])]]

\* log(level, message, meta): debug events are dropped unless config.debug;
\* the sanitized event goes to the configured logger, else to the console
\* when config.debug is set, else nowhere.
Log(s, level, message, meta) ==
    IF ~s.debug /\ level = "debug" THEN <<>>
    ELSE IF s.logger
      THEN <<[sink |-> "logger", level |-> level, msg |-> message,
              meta |-> SanitizeForLogging(meta)]>>
    ELSE IF s.debug /\ level # "debug"
      THEN <<[sink |-> "console", level |-> level, msg |-> message,
              meta |-> SanitizeForLogging(meta)]>>
    ELSE <<>>

\* constructor: this.log('debug', 'Oway SDK initialized', { baseUrl:
\* this.config.baseUrl, authMode: 'M2M', hasDefaultApiKey: !!this.config.apiKey });
\* Go: if config.Debug { fmt.Printf("[Oway] SDK initialized (..., default API key: %v)") }
InitializedEvents(s, language) ==
    IF language = "ts"
    THEN Log(s, "debug", "Oway SDK initialized",
             Obj(<< <<KeyBaseUrl, Prim(s.baseUrl)>>,
                    <<KeyAuthMode, Prim("M2M")>>,
                    <<KeyHasDefaultApiKey, Bool(s.apiKey # NoKey)>> >>))
    ELSE IF s.debug
    THEN <<[sink |-> "stdout", level |-> "debug", msg |-> "[Oway] SDK initialized",
            meta |-> Obj(<< <<KeyHasDefaultApiKey, Bool(s.apiKey # NoKey)>> >>)]>>
    ELSE <<>>

\* getAccessToken: this.log('debug', 'Waiting for token refresh in progress')
WaitingEvents(s) == Log(s, "debug", "Waiting for token refresh in progress", Undefined)

\* getAccessToken: this.log('debug', 'Refreshing access token'), then
\* refreshToken: this.log('debug', 'Refreshing M2M access token')
RefreshStartEvents(s) ==
    Log(s, "debug", "Refreshing access token", Undefined)
    \o Log(s, "debug", "Refreshing M2M access token", Undefined)

\* refreshToken, catch: this.log('error', 'Token refresh failed', { error: error.message })
RefreshFailedEvents(s, e) ==
    Log(s, "error", "Token refresh failed", Obj(<< <<KeyError, Prim(e.msg)>> >>))

\* getAccessToken: this.log('info', 'Access token refreshed', { expiresAt }),
\* the date being written here as its time in milliseconds
RefreshedEvents(s, expiry) ==
    Log(s, "info", "Access token refreshed", Obj(<< <<KeyExpiresAt, Num(expiry)>> >>))

\* ------------------------------------------------------ the token request
\* config.tokenUrl / config.TokenURL
\* this.config.tokenUrl / c.config.TokenURL
TokenUrl == cfg.tokenUrl

\* TS: fetch(this.config.tokenUrl, { method: 'POST', headers: {'Content-Type':
\*     'application/json'}, body: JSON.stringify({ clientId, clientSecret }) })
\* Go: POST c.config.TokenURL with the body json.Marshal({"clientId", "clientSecret"})
TokenRequest(clientId, clientSecret) ==
    [method |-> "POST", url |-> TokenUrl, contentType |-> "application/json",
     body |-> [clientId |-> clientId, clientSecret |-> clientSecret]]

\* An expiry that takes the lifetime for milliseconds.
ExpiryOfInMillis(t, expiresIn) == t + expiresIn

\* TS: this.tokenExpiry = Date.now() + data.expiresIn * 1000
\* Go: time.Now().Add(time.Duration(tokenResp.ExpiresIn) * time.Second)
ExpiryOf(t, expiresIn) == t + expiresIn * 1000

\* A validity check with twice the buffer.
IsTokenValidWideMargin(tok, expiry, t) == tok # NoTok /\ t + 2 * SafetyMargin < expiry

\* A validity check that accepts the boundary.
IsTokenValidInclusive(tok, expiry, t) == tok # NoTok /\ t + SafetyMargin <= expiry

\* A pending check that never sees the marker.
HasPendingRefreshIgnored(marker) == FALSE

\* ------------------------------------------------------------ token validity
\* TS:  this.accessToken && Date.now() < this.tokenExpiry - 5 * 60 * 1000
\* Go:  c.token != "" && time.Now().Add(5*time.Minute).Before(c.tokenExpiry)
IsTokenValid(tok, expiry, t) == tok # NoTok /\ t + SafetyMargin < expiry

\* TS: if (this.tokenRefreshPromise)
HasPendingRefresh(marker) == marker # NULL

\* ------------------------------------------------------- TS refreshToken()
\* The error thrown inside the try block of refreshToken, before the catch.
\* A 2xx answer is read with response.json(), which throws a SyntaxError for
\* text that is not JSON ("Unexpected token ...") and for an empty body
\* ("Unexpected end of JSON input"); reading data.accessToken of the JSON
\* value null throws a TypeError.
RefreshThrown(resp) ==
    IF resp.kind = "neterr"
      THEN [isOway |-> FALSE, code |-> "", status |-> NoStatus, src |-> NULL, msg |-> "fetch failed", rid |-> NoId]
    ELSE IF ~ResponseOk(resp.status)
      THEN [isOway |-> TRUE, code |-> "AUTH_FAILED", status |-> resp.status, src |-> NULL, msg |-> "Failed to obtain access token", rid |-> NoId]
    ELSE IF resp.shape = "invalid"
      THEN [isOway |-> FALSE, code |-> "", status |-> NoStatus, src |-> NULL, msg |-> "Unexpected token", rid |-> NoId]
    ELSE IF resp.shape = "none"
      THEN [isOway |-> FALSE, code |-> "", status |-> NoStatus, src |-> NULL, msg |-> "Unexpected end of JSON input", rid |-> NoId]
    ELSE IF resp.shape = "null"
      THEN [isOway |-> FALSE, code |-> "", status |-> NoStatus, src |-> NULL, msg |-> "Cannot read properties of null", rid |-> NoId]
    ELSE IF resp.shape # "camel" \/ resp.tok = NoTok \/ resp.exp = 0
      THEN [isOway |-> TRUE, code |-> "AUTH_INVALID_RESPONSE", status |-> NoStatus, src |-> NULL, msg |-> "Invalid token response", rid |-> NoId]
    ELSE NoErr

RefreshSucceeds(resp) == RefreshThrown(resp) = NoErr

\* A catch block that rethrows whatever it caught.
CatchRefreshErrorRethrows(e) == e

\* catch (error): an OwayError is rethrown, anything else is wrapped
CatchRefreshError(e) ==
    IF e.isOway THEN e
    ELSE [isOway |-> TRUE, code |-> "AUTH_ERROR", status |-> NoStatus, src |-> NULL, msg |-> "Authentication failed", rid |-> NoId]

\* ------------------------------------------------------ TS getAccessToken()
\* The synchronous part of getAccessToken, up to its first await or return,
\* as it runs inside the call that reaches it: what is left unsaid here is
\* the request record and the facade record of that call.
GetAccessTokenCalled(p) ==
    /\ lang = "ts"
    /\ cfg.state = "built"
    /\ c[p].pc = "idle"
    /\ logged' = IF HasPendingRefresh(tokenRefreshPromise)
                   THEN LET sc == Scope(NoTok, NoKey, NoHeaders)
                        IN [run |-> WaitingEvents(sc),
                            twin |-> WaitingEvents(TwinScope(sc))]
                 ELSE IF IsTokenValid(accessToken, tokenExpiry, now) THEN NoEvents
                 ELSE LET sc == Scope(NoTok, NoKey, NoHeaders)
                      IN [run |-> RefreshStartEvents(sc),
                          twin |-> RefreshStartEvents(TwinScope(sc))]
    /\ IF HasPendingRefresh(tokenRefreshPromise)
       THEN /\ c' = [c EXCEPT ![p] = [@ EXCEPT !.pc = "awaitJoin", !.via = "joined",
                                                !.ref = tokenRefreshPromise]]
            /\ UNCHANGED <<tokenRefreshPromise, refreshes, tokInFlight>>
       ELSE IF IsTokenValid(accessToken, tokenExpiry, now)
       THEN /\ c' = [c EXCEPT ![p] = [@ EXCEPT !.pc = "tokDone", !.via = "cache",
                                                !.result = OkResult(accessToken)]]
            /\ UNCHANGED <<tokenRefreshPromise, refreshes, tokInFlight>>
       ELSE /\ refreshes' = Append(refreshes,
                   [state |-> "inflight", by |-> p, tok |-> NoTok, err |-> NoErr,
                    preTok |-> accessToken, preExpiry |-> tokenExpiry,
                    resp |-> NoTokenResponse, at |-> 0, herd |-> {},
                    req |-> TokenRequest(cfg.clientId, cfg.clientSecret)])
            /\ tokenRefreshPromise' = Len(refreshes) + 1
            /\ tokInFlight' = tokInFlight + 1
            /\ c' = [c EXCEPT ![p] = [@ EXCEPT !.pc = "awaitRefresh", !.via = "refresh",
                                                !.ref = Len(refreshes) + 1]]
    /\ UNCHANGED <<peer, san, cfg, cls, apiKey, maxRetries, lang, now, ticks, accessToken, tokenExpiry, tokenMutex>>

\* request() called directly: it runs up to `await this.getAccessToken()`,
\* and getAccessToken up to its first await or return, in one turn.
GetAccessToken(p) ==
    /\ GetAccessTokenCalled(p)
    /\ UNCHANGED <<api, rq>>

\* The token endpoint answers: the rest of refreshToken() runs and settles
\* the promise; on success it writes tokenExpiry before returning the token.
RefreshTokenSettles(r, resp) ==
    /\ lang = "ts"
    /\ refreshes[r].state = "inflight"
    /\ logged' = IF RefreshSucceeds(resp) THEN NoEvents
                 ELSE LET sc == Scope(NoTok, NoKey, NoHeaders)
                      IN [run |-> RefreshFailedEvents(sc, RefreshThrown(resp)),
                          twin |-> RefreshFailedEvents(TwinScope(sc), RefreshThrown(resp))]
    /\ tokInFlight' = tokInFlight - 1
    /\ IF RefreshSucceeds(resp)
       THEN /\ tokenExpiry' = ExpiryOf(now, resp.exp)
            /\ refreshes' = [refreshes EXCEPT ![r] =
                   [@ EXCEPT !.state = "fulfilled", !.tok = resp.tok, !.resp = Offered(resp),
                             !.at = now]]
       ELSE /\ tokenExpiry' = tokenExpiry
            /\ refreshes' = [refreshes EXCEPT ![r] =
                   [@ EXCEPT !.state = "rejected", !.resp = Offered(resp),
                             !.err = [CatchRefreshError(RefreshThrown(resp)) EXCEPT !.src = r]]]
    /\ UNCHANGED <<peer, api, san, cfg, cls, apiKey, maxRetries, rq, lang, now, ticks, accessToken, tokenRefreshPromise, tokenMutex, c>>

\* finally { this.tokenRefreshPromise = null }
MarkerAfterRefresh(marker) == NULL

\* The call that started the refresh resumes after `await this.tokenRefreshPromise`.
GetAccessTokenResumes(p) ==
    /\ lang = "ts"
    /\ c[p].pc = "awaitRefresh"
    /\ refreshes[c[p].ref].state # "inflight"
    /\ logged' = IF refreshes[c[p].ref].state = "fulfilled"
                   THEN LET sc == [Scope(NoTok, NoKey, NoHeaders) EXCEPT !.accessToken = refreshes[c[p].ref].tok]
                        IN [run |-> RefreshedEvents(sc, tokenExpiry),
                            twin |-> RefreshedEvents(TwinScope(sc), tokenExpiry)]
                   ELSE NoEvents
    /\ IF refreshes[c[p].ref].state = "fulfilled"
       THEN /\ accessToken' = refreshes[c[p].ref].tok
            /\ c' = [c EXCEPT ![p] = [@ EXCEPT !.pc = "tokDone",
                                                !.result = OkResult(refreshes[c[p].ref].tok)]]
       ELSE /\ accessToken' = accessToken
            /\ c' = [c EXCEPT ![p] = [@ EXCEPT !.pc = "tokDone",
                                                !.result = ErrResult(refreshes[c[p].ref].err)]]
    /\ tokenRefreshPromise' = MarkerAfterRefresh(tokenRefreshPromise)
    /\ UNCHANGED <<peer, api, san, cfg, cls, apiKey, maxRetries, rq, lang, now, ticks, tokenExpiry, tokenMutex, refreshes, tokInFlight>>

\* A joined call that swallows the failure of the refresh it awaited.
JoinedResultSwallowsFailure(rec) == OkResult(rec.tok)

\* What a call that returned the pending promise settles with.
JoinedResult(rec) ==
    IF rec.state = "fulfilled" THEN OkResult(rec.tok) ELSE ErrResult(rec.err)

\* A call that returned the pending promise settles with that promise's
\* outcome; its reaction runs after the one of the call that started it.
JoinedCallSettles(p) ==
    /\ lang = "ts"
    /\ logged' = NoEvents
    /\ c[p].pc = "awaitJoin"
    /\ refreshes[c[p].ref].state # "inflight"
    /\ c[refreshes[c[p].ref].by].pc # "awaitRefresh"
    /\ c' = [c EXCEPT ![p] = [@ EXCEPT !.pc = "tokDone",
                                        !.result = JoinedResult(refreshes[c[p].ref])]]
    /\ UNCHANGED <<peer, api, san, cfg, cls, apiKey, maxRetries, rq, lang, now, ticks, accessToken, tokenExpiry, tokenRefreshPromise,
                   tokenMutex, refreshes, tokInFlight>>

\* ------------------------------------------------------ Go getAccessToken()
\* Go refreshToken: (token, expiresIn seconds, failed)
GoRefreshFails(resp) == resp.kind = "neterr" \/ resp.status # 200
GoDecodedTok(resp) == IF resp.shape = "snake" THEN resp.tok ELSE NoTok
GoDecodedExp(resp) == IF resp.shape = "snake" THEN resp.exp ELSE 0

\* A write lock that excludes nobody.
GoCanLockAlways(mutex) == TRUE

\* RLock(); check; RUnlock(): readers are excluded while the write lock is held.
GoCanRLock(mutex) == mutex = NULL
\* Lock(): excluded while another goroutine holds the write lock.
GoCanLock(mutex) == mutex = NULL

\* RLock(); first check; RUnlock(), as it runs inside the call that reaches
\* it: what is left unsaid here is the request record and the facade record
\* of that call.
GoFastPathCalled(p) ==
    /\ lang = "go"
    /\ logged' = NoEvents
    /\ cfg.state = "built"
    /\ c[p].pc = "idle"
    /\ GoCanRLock(tokenMutex)
    /\ IF IsTokenValid(accessToken, tokenExpiry, now)
       THEN c' = [c EXCEPT ![p] = [@ EXCEPT !.pc = "tokDone", !.via = "cache",
                                             !.result = OkResult(accessToken)]]
       ELSE c' = [c EXCEPT ![p] = [@ EXCEPT !.pc = "wantLock"]]
    /\ UNCHANGED <<peer, san, cfg, cls, apiKey, maxRetries, lang, now, ticks, accessToken, tokenExpiry, tokenRefreshPromise,
                   tokenMutex, refreshes, tokInFlight>>

\* A request made on the generated client directly reaches RoundTrip, whose
\* first statement is getAccessToken.
GoFastPath(p) ==
    /\ GoFastPathCalled(p)
    /\ UNCHANGED <<api, rq>>

\* Lock(); second check; either return the token stored meanwhile or send
\* the token request while holding the lock.
GoSlowPath(p) ==
    /\ lang = "go"
    /\ logged' = NoEvents
    /\ c[p].pc = "wantLock"
    /\ GoCanLock(tokenMutex)
    /\ IF IsTokenValid(accessToken, tokenExpiry, now)
       THEN /\ c' = [c EXCEPT ![p] = [@ EXCEPT !.pc = "tokDone", !.via = "recheck",
                                                !.ref = Len(refreshes),
                                                !.result = OkResult(accessToken)]]
            /\ UNCHANGED <<tokenMutex, refreshes, tokInFlight>>
       ELSE /\ tokenMutex' = p
            /\ refreshes' = Append(refreshes,
                   [state |-> "inflight", by |-> p, tok |-> NoTok, err |-> NoErr,
                    preTok |-> accessToken, preExpiry |-> tokenExpiry,
                    resp |-> NoTokenResponse, at |-> 0, herd |-> {},
                    req |-> TokenRequest(cfg.clientId, cfg.clientSecret)])
            /\ tokInFlight' = tokInFlight + 1
            /\ c' = [c EXCEPT ![p] = [@ EXCEPT !.pc = "refreshing", !.via = "refresh",
                                                !.ref = Len(refreshes) + 1]]
    /\ UNCHANGED <<peer, api, san, cfg, cls, apiKey, maxRetries, rq, lang, now, ticks, accessToken, tokenExpiry, tokenRefreshPromise>>

\* The token endpoint answers the goroutine holding the lock.
GoRefreshReturns(p, resp) ==
    /\ lang = "go"
    /\ logged' = NoEvents
    /\ c[p].pc = "refreshing"
    /\ tokInFlight' = tokInFlight - 1
    /\ tokenMutex' = NULL
    /\ IF GoRefreshFails(resp)
       THEN /\ refreshes' = [refreshes EXCEPT ![c[p].ref] =
                   [@ EXCEPT !.state = "rejected", !.resp = Offered(resp),
                             !.herd = {q \in DOMAIN c : c[q].pc = "wantLock"},
                             !.err = [isOway |-> FALSE, code |-> "", status |-> resp.status,
                                      src |-> c[p].ref, msg |-> "failed to get access token",
                                      rid |-> NoId]]]
            /\ c' = [c EXCEPT ![p] = [@ EXCEPT !.pc = "tokDone",
                        !.result = ErrResult([isOway |-> FALSE, code |-> "", status |-> resp.status,
                                   src |-> c[p].ref, msg |-> "failed to get access token",
                                   rid |-> NoId])]]
            /\ UNCHANGED <<accessToken, tokenExpiry>>
       ELSE /\ refreshes' = [refreshes EXCEPT ![c[p].ref] =
                   [@ EXCEPT !.state = "fulfilled", !.tok = GoDecodedTok(resp), !.resp = Offered(resp),
                             !.herd = {q \in DOMAIN c : c[q].pc = "wantLock"},
                             !.at = now]]
            /\ accessToken' = GoDecodedTok(resp)
            /\ tokenExpiry' = ExpiryOf(now, GoDecodedExp(resp))
            /\ c' = [c EXCEPT ![p] = [@ EXCEPT !.pc = "tokDone",
                                                !.result = OkResult(GoDecodedTok(resp))]]
    /\ UNCHANGED <<peer, api, san, cfg, cls, apiKey, maxRetries, rq, lang, now, ticks, tokenRefreshPromise>>

\* ---------------------------------------------------------- Go RoundTrip
\* fmt.Sprintf("%d", time.Now().UnixNano()): an id no other request has.
GoRequestId(p) == IF p = 1 THEN "nano-1" ELSE IF p = 2 THEN "nano-2" ELSE "nano-3"

\* What req.Context().Value(companyAPIKeyContextKey{}) finds: nothing (nil),
\* or the string that WithCompanyAPIKey stored, which may be empty.
Background == [has |-> FALSE, value |-> NoKey]
WithCompanyAPIKey(key) == [has |-> TRUE, value |-> key]
GoContexts == {Background, WithCompanyAPIKey(NoKey), WithCompanyAPIKey("ck")}

\* apiKey := ctx.Value(...); if apiKey == nil { apiKey = config.APIKey }:
\* a value stored in the context is kept even when it is the empty string,
\* and the header is set only for a key that is not empty.
GoResolveApiKey(ctx, cfgKey) == IF ctx.has THEN ctx.value ELSE cfgKey

\* The headers RoundTrip sets on the cloned request.
GoHeaders(token, requestId, key) ==
    [n \in {"Authorization", "x-request-id"} \cup (IF key # NoKey THEN {"x-oway-api-key"} ELSE {}) |->
        IF n = "Authorization" THEN
            (CASE token = "tokA" -> "Bearer tokA" [] token = "tokB" -> "Bearer tokB"
               [] OTHER -> "Bearer ")
        ELSE IF n = "x-request-id" THEN requestId
        ELSE key]

\* authenticatedTransport.RoundTrip after getAccessToken has returned: an
\* error is returned to the caller; otherwise the request is sent with the
\* token, whatever it is, in its Authorization header.  ctx is the context
\* of the request.
GoRoundTrip(p, ctx) ==
    /\ lang = "go"
    /\ c[p].pc = "tokDone"
    /\ IF c[p].result.kind = "err"
       THEN rq' = [rq EXCEPT ![p] = [@ EXCEPT !.ctx = ctx, !.res = "err", !.err = c[p].result.err]]
       ELSE rq' = [rq EXCEPT ![p] = [@ EXCEPT !.ctx = ctx, !.sent = 1, !.token = c[p].result.tok,
                      !.requestId = GoRequestId(p),
                      !.headers = GoHeaders(c[p].result.tok, GoRequestId(p),
                                            GoResolveApiKey(ctx, apiKey)),
                      !.carried = GoHeaders(c[p].result.tok, GoRequestId(p),
                                            GoResolveApiKey(ctx, apiKey))]]
    /\ c' = [c EXCEPT ![p] = [@ EXCEPT !.pc = "reqDone"]]
    /\ logged' = NoEvents
    /\ UNCHANGED <<peer, api, san, cfg, cls, apiKey, maxRetries, lang, now, ticks, accessToken, tokenExpiry,
                   tokenRefreshPromise, tokenMutex, refreshes, tokInFlight>>

\* ---------------------------------------------------------- TS request()
MaxRetriesValues == {-1, 0, 1, 3}

\* The token-endpoint answers drawn while requests run: a transport failure,
\* an error status, a token that stays valid for a second, and a token that
\* is stale at once.
ReqTokenResponses ==
    {[kind |-> "neterr", status |-> NoStatus, shape |-> "none", tok |-> NoTok, exp |-> 0],
     [kind |-> "http", status |-> 500, shape |-> "none", tok |-> NoTok, exp |-> 0],
     [kind |-> "http", status |-> 200, shape |-> "camel", tok |-> "tokA", exp |-> 301],
     [kind |-> "http", status |-> 200, shape |-> "camel", tok |-> "tokB", exp |-> 300]}

\* A response of the resource endpoint: its status and statusText, its
\* x-request-id header (NoId: none), and its body: a JSON object with the
\* fields message and code ("": the field is missing), the JSON value null,
\* text that is not JSON, or no body at all.
Response(status, body, rid, msg, code, statusText) ==
    [kind |-> "http", status |-> status, body |-> body, rid |-> rid, msg |-> msg,
     code |-> code, statusText |-> statusText]

\* fetch rejects: a transport failure, or the abort of the timeout.
NoResponse(kind) ==
    [kind |-> kind, status |-> NoStatus, body |-> "none", rid |-> NoId, msg |-> "",
     code |-> "", statusText |-> ""]

\* What the resource endpoint can answer to one attempt.
ResourceResponses ==
    {NoResponse(k) : k \in {"neterr", "timeout"}}
    \cup {Response(200, b, NoId, "", "", "OK") : b \in {"json", "invalid"}}
    \cup {Response(204, "none", NoId, "", "", "No Content")}
    \cup {Response(s, b, NoId, "", "", "ST") : s \in {400, 500}, b \in {"json", "null"}}
    \cup {Response(s, "json", NoId, "", "", "ST") : s \in {429, 501}}

\* The answers drawn for the second of two overlapping calls.
SecondCallResponses ==
    {NoResponse("neterr"), Response(200, "json", NoId, "", "", "OK"),
     Response(500, "json", NoId, "", "", "ST")}

ResponsesFor(p) == IF p = 1 THEN ResourceResponses ELSE SecondCallResponses

NoResp == NoResponse("none")

\* Header names of a request.
HContentType == "Content-Type"
HAuthorization == "Authorization"
HRequestId == "x-request-id"
HApiKey == "x-oway-api-key"

\* The options argument of request(): requestId, companyApiKey, headers.
NoOptions == [requestId |-> NoId, companyApiKey |-> NoKey, headers |-> NoHeaders]

\* method, path, hasBody: the arguments of request() and whether
\* options.body is set; a call made directly is a GET of Path without a body.
IdleRequest == [opts |-> NoOptions, ctx |-> Background,
                method |-> Method, path |-> Path, hasBody |-> FALSE,
                attempt |-> 0, sent |-> 0, sleeps |-> <<>>,
                last |-> NoResp, n500 |-> 0, token |-> NoTok, requestId |-> NoId,
                headers |-> NoHeaders, carried |-> NoHeaders, lastError |-> NoErr,
                res |-> "none", val |-> "none", err |-> NoErr,
                timer |-> "none", overdue |-> FALSE, pending |-> NoResp]

\* A classifier that retries every 5xx.
IsRetryableEveryServerError(statusCode) == statusCode = 429 \/ statusCode >= 500

\* OwayError.isRetryable()
IsRetryable(statusCode) ==
    IF statusCode = NoStatus THEN FALSE
    ELSE IF statusCode = 429 THEN TRUE
    ELSE IF statusCode = 503 THEN TRUE
    ELSE IF statusCode = 500 THEN TRUE
    ELSE IF statusCode = 501 THEN FALSE
    ELSE IF statusCode = 502 THEN TRUE
    ELSE IF statusCode = 504 THEN TRUE
    ELSE IF statusCode >= 500 THEN TRUE
    ELSE FALSE

\* A Go classifier that stops at 599.
GoIsRetryableUpTo599(statusCode) ==
    statusCode = 429 \/ (statusCode >= 500 /\ statusCode <= 599 /\ statusCode # 501)

\* Go: func (e *Error) IsRetryable() bool
GoIsRetryable(statusCode) ==
    CASE statusCode = 429 -> TRUE
      [] statusCode = 500 -> TRUE
      [] statusCode = 501 -> FALSE
      [] statusCode = 502 -> TRUE
      [] statusCode = 503 -> TRUE
      [] statusCode = 504 -> TRUE
      [] OTHER -> IF statusCode >= 500 THEN TRUE ELSE FALSE

RECURSIVE Pow2(_)
Pow2(n) == IF n <= 0 THEN 1 ELSE 2 * Pow2(n - 1)

\* A linear backoff.
BackoffDelayLinear(attempt) == (attempt + 1) * 1000

\* const delay = Math.pow(2, attempt) * 1000
BackoffDelay(attempt) == Pow2(attempt) * 1000

\* generateRequestId(): a random UUID, here an id no other call has.
GenerateRequestId(p) == IF p = 1 THEN "gen-1" ELSE IF p = 2 THEN "gen-2" ELSE "gen-3"

\* const requestId = options.requestId || this.generateRequestId()
ResolveRequestId(opts, p) ==
    IF opts.requestId # NoId THEN opts.requestId ELSE GenerateRequestId(p)

\* this.config.companyApiKey: the constructor never sets it.
ConfigCompanyApiKey == NoKey

\* A resolution that prefers the client's default key.
ResolveApiKeyDefaultFirst(opts, cfgCompanyKey, cfgKey) ==
    IF cfgKey # NoKey THEN cfgKey
    ELSE IF cfgCompanyKey # NoKey THEN cfgCompanyKey
    ELSE opts.companyApiKey

\* options.companyApiKey || this.config.companyApiKey || this.config.apiKey
ResolveApiKey(opts, cfgCompanyKey, cfgKey) ==
    IF opts.companyApiKey # NoKey THEN opts.companyApiKey
    ELSE IF cfgCompanyKey # NoKey THEN cfgCompanyKey
    ELSE cfgKey

\* `Bearer ${token}`
Bearer(token) ==
    CASE token = "tokA" -> "Bearer tokA"
      [] token = "tokB" -> "Bearer tokB"
      [] OTHER -> "Bearer "

\* The three headers the object literal starts with.
BaseHeaders(token, requestId) ==
    [n \in {HContentType, HAuthorization, HRequestId} |->
        IF n = HContentType THEN "application/json"
        ELSE IF n = HAuthorization THEN Bearer(token)
        ELSE requestId]

\* { ...a, ...b }: the entries of b replace those of a.
Spread(a, b) ==
    [n \in DOMAIN a \cup DOMAIN b |-> IF n \in DOMAIN b THEN b[n] ELSE a[n]]

\* Headers where the caller's entries are layered after the company key.
ComposeHeadersCallerLast(token, requestId, optHeaders, key) ==
    Spread(IF key # NoKey
             THEN Spread(BaseHeaders(token, requestId), [n \in {HApiKey} |-> key])
             ELSE BaseHeaders(token, requestId),
           optHeaders)

\* const headers = { 'Content-Type', 'Authorization', 'x-request-id',
\* ...options.headers }; if (apiKey) headers['x-oway-api-key'] = apiKey
ComposeHeaders(token, requestId, optHeaders, key) ==
    IF key # NoKey
    THEN Spread(Spread(BaseHeaders(token, requestId), optHeaders), [n \in {HApiKey} |-> key])
    ELSE Spread(BaseHeaders(token, requestId), optHeaders)

\* Headers composed again for the attempt.
AttemptHeadersRecomposed(composed, current) == current

\* fetch(url, { method, headers, ... }): every attempt is passed the headers
\* object composed before the loop.
AttemptHeaders(composed, current) == composed

\* A body that is parsed whatever the status.
ParsesBodyAlways(status) == TRUE

\* if (response.status === 204) return {}; otherwise response.json() is read
ParsesBody(status) == status # 204

\* The OwayError built for a non-2xx response whose body did not make the
\* handler throw: message and code from the body, else the statusText of a
\* body that is not JSON, else the defaults; the request id of the response
\* header, else the one of the call.
ErrorFromResponse(resp, requestId) ==
    LET message == IF resp.body = "json" THEN resp.msg ELSE resp.statusText
    IN [isOway |-> TRUE,
        code |-> IF resp.body = "json" /\ resp.code # "" THEN resp.code ELSE "API_ERROR",
        status |-> resp.status,
        src |-> NULL,
        msg |-> IF message # "" THEN message ELSE "Request failed with status",
        rid |-> IF resp.rid # NoId THEN resp.rid ELSE requestId]

\* The error thrown inside the try block of one attempt (NoErr: the attempt
\* returns).  A failed or aborted fetch throws a plain Error; a non-2xx
\* response throws an OwayError, unless its body is the JSON value null,
\* where reading errorData.message throws a TypeError; a 2xx response other
\* than 204 whose body is not JSON makes response.json() throw a SyntaxError,
\* "Unexpected token ..." for text and "Unexpected end of JSON input" for an
\* empty body.
AttemptThrown(resp, requestId) ==
    IF resp.kind = "neterr"
      THEN [isOway |-> FALSE, code |-> "", status |-> NoStatus, src |-> NULL, msg |-> "fetch failed", rid |-> NoId]
    ELSE IF resp.kind = "timeout"
      THEN [isOway |-> FALSE, code |-> "", status |-> NoStatus, src |-> NULL, msg |-> "This operation was aborted", rid |-> NoId]
    ELSE IF ~ResponseOk(resp.status)
      THEN IF resp.body = "null"
             THEN [isOway |-> FALSE, code |-> "", status |-> NoStatus, src |-> NULL, msg |-> "Cannot read properties of null", rid |-> NoId]
             ELSE ErrorFromResponse(resp, requestId)
    ELSE IF ~ParsesBody(resp.status) THEN NoErr
    ELSE IF resp.body = "invalid"
      THEN [isOway |-> FALSE, code |-> "", status |-> NoStatus, src |-> NULL, msg |-> "Unexpected token", rid |-> NoId]
    ELSE IF resp.body = "none"
      THEN [isOway |-> FALSE, code |-> "", status |-> NoStatus, src |-> NULL, msg |-> "Unexpected end of JSON input", rid |-> NoId]
    ELSE NoErr

\* What a returning attempt returns: {} for 204, else the parsed body.
AttemptValue(resp) == IF ParsesBody(resp.status) THEN "json" ELSE "empty"

\* A catch block that rethrows every error the classifier does not accept.
ThrowsImmediatelyByClassifier(e) == ~IsRetryable(e.status)

\* if (error instanceof OwayError && !error.isRetryable()) throw error
ThrowsImmediately(e) == e.isOway /\ ~IsRetryable(e.status)

\* if (attempt === this.config.maxRetries) break
IsLastAttempt(attempt, mr) == attempt = mr

\* A loop that allows one attempt too many.
LoopContinuesOneMore(attempt, mr) == attempt <= mr + 1

\* for (...; attempt <= this.config.maxRetries; ...)
LoopContinues(attempt, mr) == attempt <= mr

\* A loop end that always raises the synthetic error.
ThrownAfterLoopSynthetic(lastError, requestId) ==
    [isOway |-> TRUE, code |-> "MAX_RETRIES_EXCEEDED", status |-> NoStatus, src |-> NULL,
     msg |-> "Request failed after retries", rid |-> requestId]

\* throw lastError || new OwayError(..., 'MAX_RETRIES_EXCEEDED', undefined, requestId)
ThrownAfterLoop(lastError, requestId) ==
    IF lastError # NoErr THEN lastError
    ELSE [isOway |-> TRUE, code |-> "MAX_RETRIES_EXCEEDED", status |-> NoStatus, src |-> NULL,
          msg |-> "Request failed after retries", rid |-> requestId]

\* The scope of log() inside the request() call of caller p.
RequestScope(p, token, key, headers) ==
    [Scope(token, key, headers) EXCEPT !.method = rq[p].method, !.path = rq[p].path,
                                       !.hasBody = rq[p].hasBody]

\* `${method} ${path}`
RequestLine(method, path) ==
    CASE method = Method /\ path = Path -> "GET /v1/resource"
      [] method = "POST" /\ path = "/v1/shipper/quote" -> "POST /v1/shipper/quote"
      [] method = "GET" /\ path = "/v1/shipper/quote/{id}" -> "GET /v1/shipper/quote/{id}"
      [] method = "POST" /\ path = "/v1/shipper/shipment" -> "POST /v1/shipper/shipment"
      [] method = "GET" /\ path = "/v1/shipper/shipment/{id}" -> "GET /v1/shipper/shipment/{id}"
      [] method = "PUT" /\ path = "/v1/shipper/shipment/{id}/confirm"
            -> "PUT /v1/shipper/shipment/{id}/confirm"
      [] method = "PUT" /\ path = "/v1/shipper/shipment/{id}/cancel"
            -> "PUT /v1/shipper/shipment/{id}/cancel"
      [] method = "GET" /\ path = "/v1/shipper/shipment/{id}/tracking"
            -> "GET /v1/shipper/shipment/{id}/tracking"
      [] method = "GET" /\ path = "/v1/shipper/shipment/{id}/document/{type}"
            -> "GET /v1/shipper/shipment/{id}/document/{type}"
      [] method = "GET" /\ path = "/v1/shipper/shipment/{id}/invoice"
            -> "GET /v1/shipper/shipment/{id}/invoice"
      [] OTHER -> <<method, " ", path>>

\* A first event that also logs the headers of the request.
RequestStartEventsWithHeaders(s, requestId) ==
    Log(s, "debug", RequestLine(s.method, s.path),
        Obj(<< <<KeyRequestId, Prim(requestId)>>, <<KeyHasBody, Bool(s.hasBody)>>,
               <<KeyQuery, Undefined>>,
               <<KeyHeaders,
                 Obj(<< <<KeyAuthorization, Prim(s.headers[HAuthorization])>> >>
                     \o (IF HApiKey \in DOMAIN s.headers
                           THEN << <<KeyXApiKey, Prim(s.headers[HApiKey])>> >> ELSE <<>>))>> >>))

\* request(): this.log('debug', `${method} ${path}`, { requestId, hasBody, query });
\* no call carries a query.
RequestStartEvents(s, requestId) ==
    Log(s, "debug", RequestLine(s.method, s.path),
        Obj(<< <<KeyRequestId, Prim(requestId)>>, <<KeyHasBody, Bool(s.hasBody)>>,
               <<KeyQuery, Undefined>> >>))

\* A handler that reports an error response at debug level.
ResponseEventsAtDebugLevel(s, resp, requestId, attempt) ==
    IF resp.kind # "http" \/ resp.body = "null" THEN <<>>
    ELSE Log(s, "debug", IF ResponseOk(resp.status) THEN "Request successful" ELSE "Request failed",
             Obj(<< <<KeyMethod, Prim(s.method)>>, <<KeyPath, Prim(s.path)>>,
                    <<KeyStatus, Num(resp.status)>>,
                    <<KeyRequestId, Prim(IF resp.rid # NoId THEN resp.rid ELSE requestId)>> >>))

\* Inside the try block, once fetch has resolved: 'Request failed' (warn)
\* after the OwayError of a non-2xx response was built, 'Request successful'
\* (debug) for a 2xx response before its body is read.
ResponseEvents(s, resp, requestId, attempt) ==
    IF resp.kind # "http" THEN <<>>
    ELSE IF ~ResponseOk(resp.status)
      THEN IF resp.body = "null" THEN <<>>
           ELSE Log(s, "warn", "Request failed",
                    Obj(<< <<KeyMethod, Prim(s.method)>>, <<KeyPath, Prim(s.path)>>,
                           <<KeyStatus, Num(resp.status)>>,
                           <<KeyRequestId, Prim(IF resp.rid # NoId THEN resp.rid ELSE requestId)>>,
                           <<KeyAttempt, Num(attempt + 1)>>,
                           <<KeyIsRetryable, Bool(IsRetryable(resp.status))>> >>))
    ELSE Log(s, "debug", "Request successful",
             Obj(<< <<KeyMethod, Prim(s.method)>>, <<KeyPath, Prim(s.path)>>,
                    <<KeyStatus, Num(resp.status)>>,
                    <<KeyRequestId, Prim(IF resp.rid # NoId THEN resp.rid ELSE requestId)>> >>))

\* After the loop: this.log('error', 'Request failed', { requestId, error })
GiveUpEvents(s, lastError, requestId) ==
    Log(s, "error", "Request failed",
        Obj(<< <<KeyRequestId, Prim(requestId)>>,
               <<KeyError, Prim(IF lastError # NoErr THEN lastError.msg ELSE "Unknown error")>> >>))

\* The catch block: 'Non-retryable error' (error) before rethrowing,
\* 'Max retries exceeded' (error) before leaving the loop, which is followed
\* by the event after the loop, or 'Retrying request' (warn) before the backoff.
CatchEvents(s, e, requestId, attempt, mr) ==
    IF ThrowsImmediately(e)
      THEN Log(s, "error", "Non-retryable error",
               Obj(<< <<KeyRequestId, Prim(requestId)>>, <<KeyCode, Prim(e.code)>>,
                      <<KeyStatusCode, IF e.status # NoStatus THEN Num(e.status) ELSE Undefined>> >>))
    ELSE IF IsLastAttempt(attempt, mr)
      THEN Log(s, "error", "Max retries exceeded",
               Obj(<< <<KeyRequestId, Prim(requestId)>>, <<KeyAttempts, Num(attempt + 1)>> >>))
           \o GiveUpEvents(s, e, requestId)
    ELSE Log(s, "warn", "Retrying request",
             Obj(<< <<KeyRequestId, Prim(requestId)>>, <<KeyAttempt, Num(attempt + 1)>>,
                    <<KeyMaxRetries, Num(mr)>>, <<KeyDelayMs, Num(BackoffDelay(attempt))>> >>))

\* The events of the turn in which fetch resolves: 'Request successful' is
\* logged before `await response.json()`; for a non-2xx response nothing is
\* logged before its body has been read.
FetchResolvedEvents(s, resp, requestId, attempt) ==
    IF resp.kind = "http" /\ ResponseOk(resp.status)
    THEN ResponseEvents(s, resp, requestId, attempt)
    ELSE <<>>

\* The events of the turn in which the attempt ends: the body has been read
\* or could not be, or fetch has rejected.
BodyReadEvents(s, resp, requestId, attempt, mr) ==
    (IF resp.kind = "http" /\ ~ResponseOk(resp.status)
     THEN ResponseEvents(s, resp, requestId, attempt)
     ELSE <<>>)
    \o (IF AttemptThrown(resp, requestId) = NoErr THEN <<>>
        ELSE CatchEvents(s, AttemptThrown(resp, requestId), requestId, attempt, mr))

\* All events of an attempt that ends in the turn in which fetch settles.
AttemptEvents(s, resp, requestId, attempt, mr) ==
    FetchResolvedEvents(s, resp, requestId, attempt)
    \o BodyReadEvents(s, resp, requestId, attempt, mr)

\* A request() that treats a retryable token failure as a failed first
\* attempt: one request counted and one backoff recorded before it rejects.
RejectedByTokenFailureAfterAttempt(req, err) ==
    IF IsRetryable(err.status)
    THEN [req EXCEPT !.res = "err", !.err = err, !.sent = 1, !.sleeps = <<BackoffDelay(0)>>]
    ELSE [req EXCEPT !.res = "err", !.err = err]

\* const token = await this.getAccessToken() stands before the loop and
\* outside its try: the rejection leaves request() at once, as it is.
RejectedByTokenFailure(req, err) == [req EXCEPT !.res = "err", !.err = err]

\* request() resumes after `await this.getAccessToken()`: a rejection
\* propagates; otherwise the request id and the company key are resolved,
\* the headers are composed with the token just resolved and the loop sends
\* its first attempt.  The settled promise of getAccessToken is consumed:
\* only the local `token` keeps its value.
RequestProceeds(p) ==
    /\ lang = "ts"
    /\ c[p].pc = "tokDone"
    /\ IF c[p].result.kind = "err"
       THEN /\ rq' = [rq EXCEPT ![p] = RejectedByTokenFailure(rq[p], c[p].result.err)]
            /\ c' = [c EXCEPT ![p] = [IdleCall EXCEPT !.pc = "reqDone"]]
            /\ logged' = NoEvents
       ELSE LET token == c[p].result.tok
                requestId == ResolveRequestId(rq[p].opts, p)
                key == ResolveApiKey(rq[p].opts, ConfigCompanyApiKey, apiKey)
                headers == ComposeHeaders(token, requestId, rq[p].opts.headers, key)
                started == [rq[p] EXCEPT !.token = token, !.requestId = requestId,
                                         !.headers = headers]
            IN IF LoopContinues(0, maxRetries)
               THEN /\ rq' = [rq EXCEPT ![p] = [started EXCEPT !.sent = 1, !.timer = "armed",
                                  !.carried = AttemptHeaders(headers, headers)]]
                    /\ c' = [c EXCEPT ![p] = [IdleCall EXCEPT !.pc = "fetching"]]
                    /\ logged' = LET sc == RequestScope(p, token, key, headers)
                                 IN [run |-> RequestStartEvents(sc, requestId),
                                     twin |-> RequestStartEvents(TwinScope(sc), requestId)]
               ELSE /\ rq' = [rq EXCEPT ![p] = [started EXCEPT !.res = "err",
                                  !.err = ThrownAfterLoop(NoErr, requestId)]]
                    /\ c' = [c EXCEPT ![p] = [IdleCall EXCEPT !.pc = "reqDone"]]
                    /\ logged' = LET sc == RequestScope(p, token, key, headers)
                                 IN [run |-> RequestStartEvents(sc, requestId) \o GiveUpEvents(sc, NoErr, requestId),
                                     twin |-> RequestStartEvents(TwinScope(sc), requestId) \o GiveUpEvents(TwinScope(sc), NoErr, requestId)]
    /\ UNCHANGED <<peer, api, san, cfg, cls, apiKey, maxRetries, lang, now, ticks, accessToken, tokenExpiry,
                   tokenRefreshPromise, tokenMutex, refreshes, tokInFlight>>

\* const timeoutId = setTimeout(() => controller.abort(), this.config.timeout)
\* is armed when the attempt is sent; clearTimeout(timeoutId) runs as soon as
\* fetch has resolved with the status line and the headers; a fetch that
\* rejects skips it, and the abort itself is the timer having fired.
TimerAfterFetch(timer, resp) ==
    IF resp.kind = "http" THEN "cleared"
    ELSE IF resp.kind = "timeout" THEN "fired"
    ELSE timer

\* An answer that ends the attempt in the turn in which fetch settles: fetch
\* rejects, or the response is a 2xx whose body is not read.  For every
\* other response the handler awaits response.json() first.
SettlesAtOnce(resp) ==
    resp.kind # "http" \/ (ResponseOk(resp.status) /\ ~ParsesBody(resp.status))

\* The rest of an attempt once its outcome is known: the response is
\* handled, or the catch block decides between rethrowing, giving up after
\* the last attempt, and backing off.  fetched: fetch had resolved in an
\* earlier turn, and this is the turn in which response.json() settles.
Settled(p, resp, fetched) ==
    /\ logged' = LET sc == RequestScope(p, rq[p].token, ResolveApiKey(rq[p].opts, ConfigCompanyApiKey, apiKey), rq[p].headers)
                 IN IF fetched
                    THEN [run |-> BodyReadEvents(sc, resp, rq[p].requestId, rq[p].attempt, maxRetries),
                          twin |-> BodyReadEvents(TwinScope(sc), resp, rq[p].requestId, rq[p].attempt, maxRetries)]
                    ELSE [run |-> AttemptEvents(sc, resp, rq[p].requestId, rq[p].attempt, maxRetries),
                          twin |-> AttemptEvents(TwinScope(sc), resp, rq[p].requestId, rq[p].attempt, maxRetries)]
    /\ LET e == AttemptThrown(resp, rq[p].requestId)
           seen == [rq[p] EXCEPT !.last = resp, !.pending = NoResp,
                       !.timer = TimerAfterFetch(rq[p].timer, resp),
                       !.n500 = @ + (IF resp.kind = "http" /\ resp.status = 500 THEN 1 ELSE 0)]
       IN IF e = NoErr
          THEN /\ rq' = [rq EXCEPT ![p] = [seen EXCEPT !.res = "ok", !.val = AttemptValue(resp)]]
               /\ c' = [c EXCEPT ![p] = [@ EXCEPT !.pc = "reqDone"]]
          ELSE IF ThrowsImmediately(e)
          THEN /\ rq' = [rq EXCEPT ![p] = [seen EXCEPT !.lastError = e, !.res = "err", !.err = e]]
               /\ c' = [c EXCEPT ![p] = [@ EXCEPT !.pc = "reqDone"]]
          ELSE IF IsLastAttempt(rq[p].attempt, maxRetries)
          THEN /\ rq' = [rq EXCEPT ![p] = [seen EXCEPT !.lastError = e, !.res = "err",
                                                        !.err = ThrownAfterLoop(e, rq[p].requestId)]]
               /\ c' = [c EXCEPT ![p] = [@ EXCEPT !.pc = "reqDone"]]
          ELSE /\ rq' = [rq EXCEPT ![p] = [seen EXCEPT !.lastError = e,
                                !.sleeps = Append(@, BackoffDelay(rq[p].attempt))]]
               /\ c' = [c EXCEPT ![p] = [@ EXCEPT !.pc = "sleeping"]]
    /\ UNCHANGED <<peer, api, san, cfg, cls, apiKey, maxRetries, lang, now, ticks, accessToken, tokenExpiry,
                   tokenRefreshPromise, tokenMutex, refreshes, tokInFlight>>

\* One attempt ends in one step: fetch rejects, or it resolves with a 204,
\* for which the handler returns {} without reading a body.
AttemptSettles(p, resp) ==
    /\ lang = "ts"
    /\ c[p].pc = "fetching"
    /\ SettlesAtOnce(resp)
    /\ Settled(p, resp, FALSE)

\* fetch resolves: the status line and the headers of a response whose body
\* the handler goes on to read have arrived; the timeout is cleared, a 2xx
\* response is logged as successful, and the handler awaits response.json().
HeadersArrive(p, resp) ==
    /\ lang = "ts"
    /\ c[p].pc = "fetching"
    /\ ~SettlesAtOnce(resp)
    /\ rq' = [rq EXCEPT ![p] = [@ EXCEPT !.pending = resp,
                                         !.timer = TimerAfterFetch(rq[p].timer, resp)]]
    /\ c' = [c EXCEPT ![p] = [@ EXCEPT !.pc = "reading"]]
    /\ logged' = LET sc == RequestScope(p, rq[p].token, ResolveApiKey(rq[p].opts, ConfigCompanyApiKey, apiKey), rq[p].headers)
                 IN [run |-> FetchResolvedEvents(sc, resp, rq[p].requestId, rq[p].attempt),
                     twin |-> FetchResolvedEvents(TwinScope(sc), resp, rq[p].requestId, rq[p].attempt)]
    /\ UNCHANGED <<peer, api, san, cfg, cls, apiKey, maxRetries, lang, now, ticks, accessToken, tokenExpiry,
                   tokenRefreshPromise, tokenMutex, refreshes, tokInFlight>>

\* response.json() settles: the body has arrived.
BodyArrives(p) ==
    /\ lang = "ts"
    /\ c[p].pc = "reading"
    /\ Settled(p, rq[p].pending, TRUE)

\* config.timeout milliseconds have passed since the attempt was sent and it
\* has not finished: a timer that is still armed fires and aborts the fetch;
\* a timer that was cleared does nothing, and the attempt goes on.
TimeoutElapses(p) ==
    /\ lang = "ts"
    /\ c[p].pc \in {"fetching", "reading"}
    /\ ~rq[p].overdue
    /\ IF rq[p].timer = "armed"
       THEN Settled(p, NoResponse("timeout"), FALSE)
       ELSE /\ rq' = [rq EXCEPT ![p] = [@ EXCEPT !.overdue = TRUE]]
            /\ logged' = NoEvents
            /\ UNCHANGED <<peer, api, san, cfg, cls, apiKey, maxRetries, lang, now, ticks, accessToken,
                           tokenExpiry, tokenRefreshPromise, tokenMutex, refreshes,
                           tokInFlight, c>>

\* The backoff timer fires: attempt++ and, the loop condition holding, the
\* next attempt is sent with the headers composed before the loop.
BackoffElapses(p) ==
    /\ lang = "ts"
    /\ c[p].pc = "sleeping"
    /\ logged' = IF LoopContinues(rq[p].attempt + 1, maxRetries) THEN NoEvents
                 ELSE LET sc == RequestScope(p, rq[p].token, ResolveApiKey(rq[p].opts, ConfigCompanyApiKey, apiKey), rq[p].headers)
                      IN [run |-> GiveUpEvents(sc, rq[p].lastError, rq[p].requestId),
                          twin |-> GiveUpEvents(TwinScope(sc), rq[p].lastError, rq[p].requestId)]
    /\ IF LoopContinues(rq[p].attempt + 1, maxRetries)
       THEN /\ rq' = [rq EXCEPT ![p] = [@ EXCEPT !.attempt = @ + 1, !.sent = @ + 1,
                         !.timer = "armed", !.overdue = FALSE,
                         !.carried = AttemptHeaders(rq[p].headers,
                             ComposeHeaders(accessToken, rq[p].requestId, rq[p].opts.headers,
                                 ResolveApiKey(rq[p].opts, ConfigCompanyApiKey, apiKey)))]]
            /\ c' = [c EXCEPT ![p] = [@ EXCEPT !.pc = "fetching"]]
       ELSE /\ rq' = [rq EXCEPT ![p] = [@ EXCEPT !.attempt = @ + 1, !.res = "err",
                         !.err = ThrownAfterLoop(rq[p].lastError, rq[p].requestId)]]
            /\ c' = [c EXCEPT ![p] = [@ EXCEPT !.pc = "reqDone"]]
    /\ UNCHANGED <<peer, api, san, cfg, cls, apiKey, maxRetries, lang, now, ticks, accessToken, tokenExpiry,
                   tokenRefreshPromise, tokenMutex, refreshes, tokInFlight>>

\* ------------------------------------------------- retry classification
\* The HTTP status codes.
StatusCodes == 100..599

\* What the statusCode field can hold besides an HTTP status: nothing
\* (undefined in TypeScript, the zero value in Go), and numbers past 599.
ClassifierInputs == {NoStatus} \cup StatusCodes \cup 600..620

IdleCls == [status |-> NoStatus, ts |-> FALSE, go |-> FALSE, done |-> FALSE]

\* new OwayError(..., status).isRetryable() and (&Error{StatusCode: status}).IsRetryable()
Classify ==
    /\ ~cls.done
    /\ logged' = NoEvents
    /\ cls' = [cls EXCEPT !.ts = IsRetryable(cls.status), !.go = GoIsRetryable(cls.status),
                          !.done = TRUE]
    /\ UNCHANGED <<peer, api, san, cfg, apiKey, maxRetries, rq, lang, now, ticks, accessToken, tokenExpiry,
                   tokenRefreshPromise, tokenMutex, refreshes, tokInFlight, c>>

\* --------------------------------------------- resource facades (TypeScript)
\* Quotes and Shipments: each method is one call of HttpClient.get/post/put.
FacadeMethods ==
    {"quotes.create", "quotes.retrieve", "shipments.create", "shipments.retrieve",
     "shipments.confirm", "shipments.cancel", "shipments.tracking",
     "shipments.document", "shipments.invoice"}

FacadeVerb(m) ==
    IF m \in {"quotes.create", "shipments.create"} THEN "POST"
    ELSE IF m \in {"shipments.confirm", "shipments.cancel"} THEN "PUT"
    ELSE "GET"

FacadePath(m) ==
    IF m = "quotes.create" THEN "/v1/shipper/quote"
    ELSE IF m = "quotes.retrieve" THEN "/v1/shipper/quote/{id}"
    ELSE IF m = "shipments.create" THEN "/v1/shipper/shipment"
    ELSE IF m = "shipments.retrieve" THEN "/v1/shipper/shipment/{id}"
    ELSE IF m = "shipments.confirm" THEN "/v1/shipper/shipment/{id}/confirm"
    ELSE IF m = "shipments.cancel" THEN "/v1/shipper/shipment/{id}/cancel"
    ELSE IF m = "shipments.tracking" THEN "/v1/shipper/shipment/{id}/tracking"
    ELSE IF m = "shipments.document" THEN "/v1/shipper/shipment/{id}/document/{type}"
    ELSE "/v1/shipper/shipment/{id}/invoice"

\* A facade that keeps the tenant key to itself.
FacadeRequestWithoutKey(m, companyApiKey) ==
    [method |-> FacadeVerb(m), path |-> FacadePath(m), companyApiKey |-> NoKey]

\* this.client.post(path, params, companyApiKey) and the like, which are
\* this.request(method, path, { body | query, companyApiKey })
FacadeRequest(m, companyApiKey) ==
    [method |-> FacadeVerb(m), path |-> FacadePath(m), companyApiKey |-> companyApiKey]

\* ------------------------------------------------------- Go facade methods
GoFacadeMethods ==
    {"RequestQuote", "CreateShipment", "ConfirmShipment", "TrackShipment", "GetInvoice",
     "GetShipment", "CancelShipment", "GetQuoteByID", "GetDocument"}

\* The words before "failed: status %d" in the error of each method.
GoFacadeWords(m) ==
    IF m = "RequestQuote" THEN "request quote"
    ELSE IF m = "CreateShipment" THEN "create shipment"
    ELSE IF m = "ConfirmShipment" THEN "confirm shipment"
    ELSE IF m = "TrackShipment" THEN "track shipment"
    ELSE IF m = "GetInvoice" THEN "get invoice"
    ELSE IF m = "GetShipment" THEN "get shipment"
    ELSE IF m = "CancelShipment" THEN "cancel shipment"
    ELSE IF m = "GetQuoteByID" THEN "get quote"
    ELSE "get document"

\* What the generated client hands back to a facade method: a transport
\* error, or a status with or without a decoded 200 body.
GoApiAnswers ==
    {[kind |-> "neterr", status |-> NoStatus, body |-> FALSE]}
    \cup {[kind |-> "http", status |-> 200, body |-> b] : b \in BOOLEAN}
    \cup {[kind |-> "http", status |-> s, body |-> FALSE] : s \in {201, 400, 404, 429, 500, 503}}

\* An error value: isOway says whether it is an OwayError / *oway.Error;
\* `arg` is the number formatted into the message of an fmt.Errorf.
ApiError(isOway, msg, code, status, rid, arg) ==
    [isOway |-> isOway, msg |-> msg, code |-> code, status |-> status, rid |-> rid, arg |-> arg]

NoApiError == ApiError(FALSE, "", "", NoStatus, NoId, 0)

\* if err != nil { return nil, err }
\* if res.StatusCode() != http.StatusOK { return nil, fmt.Errorf("... failed: status %d", ...) }
\* if res.HALJSON200 == nil { return nil, fmt.Errorf("unexpected empty response body") }
GoFacadeResult(m, ans) ==
    IF ans.kind = "neterr"
      THEN [kind |-> "err", err |-> ApiError(FALSE, "transport error", "", NoStatus, NoId, 0)]
    ELSE IF ans.status # 200
      THEN [kind |-> "err", err |-> ApiError(FALSE, GoFacadeWords(m), "", NoStatus, NoId, ans.status)]
    ELSE IF ~ans.body
      THEN [kind |-> "err", err |-> ApiError(FALSE, "unexpected empty response body", "", NoStatus, NoId, 0)]
    ELSE [kind |-> "ok", err |-> NoApiError]

\* --------------------------------------------------- OwayMcpServer (tools)
ToolNames == {"oway_get_quote", "oway_create_shipment", "oway_track_shipment", "oway_cancel"}

\* switch (toolName): the facade method of a known tool, "" for the default case
ToolMethod(toolName) ==
    IF toolName = "oway_get_quote" THEN "quotes.create"
    ELSE IF toolName = "oway_create_shipment" THEN "shipments.create"
    ELSE IF toolName = "oway_track_shipment" THEN "shipments.tracking"
    ELSE ""

\* The caller that goes through the facade: the first one.
ApiCaller == CHOOSE p \in ReqCallers : \A q \in ReqCallers : p <= q

\* What the facade method settles with when request() has settled: its
\* value, or the error it rejected with, as it is.
RequestOutcome(req) ==
    IF req.res = "ok" THEN [kind |-> "ok", err |-> NoApiError]
    ELSE [kind |-> "err",
          err |-> ApiError(req.err.isOway, req.err.msg, req.err.code, req.err.status,
                           req.err.rid, 0)]

NoPayload == [kind |-> "none"]

\* catch (error): if (error instanceof OwayError)
\*     return { error: error.message, code: error.code, requestId: error.requestId }
ToolFailurePayload(e) ==
    [kind |-> "failure", error |-> e.msg, code |-> e.code, requestId |-> e.rid]

\* What executeTool settles with for an outcome of the facade call.
ToolSettlesWith(outcome) ==
    IF outcome.kind = "ok" THEN [kind |-> "value"]
    ELSE IF outcome.err.isOway THEN ToolFailurePayload(outcome.err)
    ELSE [kind |-> "thrown", error |-> outcome.err.msg]

\* ans: what the generated Go client answered the facade method with.
IdleApi == [pc |-> "idle", tool |-> "", method |-> "", arg |-> NoKey, calls |-> <<>>,
            ans |-> [kind |-> "none", status |-> NoStatus, body |-> FALSE],
            ret |-> [kind |-> "none", err |-> NoApiError], payload |-> NoPayload]

\* The request() call a facade method makes, up to its first await: the
\* method hands its arguments to get/post/put, which call request(), which
\* calls getAccessToken(), all in the turn of the caller.  Only a POST
\* carries a body.
FacadeRuns(m, companyApiKey) ==
    LET call == FacadeRequest(m, companyApiKey)
    IN /\ rq' = [rq EXCEPT ![ApiCaller] =
                    [@ EXCEPT !.opts = [NoOptions EXCEPT !.companyApiKey = call.companyApiKey],
                              !.method = call.method, !.path = call.path,
                              !.hasBody = (call.method = "POST")]]
       /\ GetAccessTokenCalled(ApiCaller)

\* A facade method is called directly.
FacadeCall(m, companyApiKey) ==
    /\ lang = "ts"
    /\ api.pc = "idle"
    /\ api' = [api EXCEPT !.pc = "called", !.method = m, !.arg = companyApiKey,
                          !.calls = Append(@, FacadeRequest(m, companyApiKey))]
    /\ FacadeRuns(m, companyApiKey)

\* executeTool(toolName, args) up to its await: args.companyApiKey is taken
\* out of args and handed to the facade method, which runs up to the first
\* await of its request() call; an unknown tool throws an Error, which the
\* catch block throws again, and nothing is requested.
ExecuteTool(toolName, companyApiKey) ==
    /\ lang = "ts"
    /\ api.pc = "idle"
    /\ IF ToolMethod(toolName) = ""
         THEN /\ api' = [api EXCEPT !.pc = "toolDone", !.tool = toolName, !.arg = companyApiKey,
                            !.payload = [kind |-> "thrown", error |-> "Unknown tool"]]
              /\ logged' = NoEvents
              /\ UNCHANGED <<peer, san, cfg, cls, apiKey, maxRetries, rq, lang, now, ticks,
                             accessToken, tokenExpiry, tokenRefreshPromise, tokenMutex,
                             refreshes, tokInFlight, c>>
         ELSE /\ api' = [api EXCEPT !.pc = "called", !.tool = toolName, !.arg = companyApiKey,
                            !.method = ToolMethod(toolName),
                            !.calls = Append(@, FacadeRequest(ToolMethod(toolName), companyApiKey))]
              /\ FacadeRuns(ToolMethod(toolName), companyApiKey)

\* request() has settled: the promise of get/post/put and the one of the
\* facade method settle with the same outcome.
ExecutorSettles ==
    /\ lang = "ts"
    /\ api.pc = "called"
    /\ c[ApiCaller].pc = "reqDone"
    /\ api' = [api EXCEPT !.pc = "returned", !.ret = RequestOutcome(rq[ApiCaller])]
    /\ logged' = NoEvents
    /\ UNCHANGED <<peer, san, cfg, cls, apiKey, maxRetries, rq, lang, now, ticks, accessToken, tokenExpiry,
                   tokenRefreshPromise, tokenMutex, refreshes, tokInFlight, c>>

\* executeTool resumes from its await of the facade method: it returns the
\* value, returns the failure payload of an OwayError, or throws again.
ExecuteToolResumes ==
    /\ lang = "ts"
    /\ api.pc = "returned"
    /\ api.tool # ""
    /\ api' = [api EXCEPT !.pc = "toolDone", !.payload = ToolSettlesWith(api.ret)]
    /\ logged' = NoEvents
    /\ UNCHANGED <<peer, san, cfg, cls, apiKey, maxRetries, rq, lang, now, ticks, accessToken, tokenExpiry,
                   tokenRefreshPromise, tokenMutex, refreshes, tokInFlight, c>>

\* A Go facade method, or its ForCompany variant (forCompany), calls the
\* generated client once; the ForCompany variant puts the key in the context.
\* The client was built on the http.Client whose Transport is
\* authenticatedTransport: the call is in RoundTrip at once, and RoundTrip in
\* getAccessToken.
GoFacadeCall(m, forCompany, companyAPIKey) ==
    LET ctx == IF forCompany THEN WithCompanyAPIKey(companyAPIKey) ELSE Background
    IN /\ lang = "go"
       /\ api.pc = "idle"
       /\ api' = [api EXCEPT !.pc = "called", !.method = m,
                             !.arg = IF forCompany THEN companyAPIKey ELSE NoKey,
                             !.calls = Append(@, [method |-> m, path |-> "", ctx |-> ctx])]
       /\ rq' = [rq EXCEPT ![ApiCaller] = [@ EXCEPT !.ctx = ctx]]
       /\ GoFastPathCalled(ApiCaller)

\* RoundTrip has sent the request: the generated client returns what the
\* API answers and the facade method returns its result.
GoFacadeReturns(ans) ==
    /\ lang = "go"
    /\ api.pc = "called"
    /\ c[ApiCaller].pc = "reqDone"
    /\ rq[ApiCaller].res # "err"
    /\ api' = [api EXCEPT !.pc = "returned", !.ans = ans,
                          !.ret = GoFacadeResult(api.method, ans)]
    /\ logged' = NoEvents
    /\ UNCHANGED <<peer, san, cfg, cls, apiKey, maxRetries, rq, lang, now, ticks, accessToken, tokenExpiry,
                   tokenRefreshPromise, tokenMutex, refreshes, tokInFlight, c>>

\* RoundTrip has returned the error of getAccessToken and has sent nothing:
\* the generated client returns that error, and the facade method returns it
\* (if err != nil { return nil, err }).
GoFacadeFails ==
    /\ lang = "go"
    /\ api.pc = "called"
    /\ c[ApiCaller].pc = "reqDone"
    /\ rq[ApiCaller].res = "err"
    /\ api' = [api EXCEPT !.pc = "returned",
                          !.ret = [kind |-> "err",
                                   err |-> ApiError(FALSE, rq[ApiCaller].err.msg, "", NoStatus,
                                                    NoId, 0)]]
    /\ logged' = NoEvents
    /\ UNCHANGED <<peer, san, cfg, cls, apiKey, maxRetries, rq, lang, now, ticks, accessToken, tokenExpiry,
                   tokenRefreshPromise, tokenMutex, refreshes, tokInFlight, c>>

\* ------------------------------------------------- a second client instance
\* The fields of another HttpClient / Client object: each instance has its
\* own accessToken, tokenExpiry and pending marker (tokenRefreshPromise or
\* the held write lock).
\* `settled` and `fetched`: the promise of refreshToken has settled, with
\* that token, and getAccessToken has not resumed from its await yet.
IdlePeer == [accessToken |-> NoTok, tokenExpiry |-> 0, pending |-> FALSE,
             settled |-> FALSE, fetched |-> NoTok]

\* What the second instance stores when its token request is answered.
\* TypeScript: refreshToken writes this.tokenExpiry and settles its promise;
\* accessToken and the marker are written when getAccessToken resumes.
\* Go: getAccessToken stores both under the write lock and releases it.
PeerStores(resp) ==
    IF lang = "ts"
      THEN IF RefreshSucceeds(resp)
             THEN [peer EXCEPT !.tokenExpiry = ExpiryOf(now, resp.exp),
                               !.settled = TRUE, !.fetched = resp.tok]
             ELSE [peer EXCEPT !.settled = TRUE]
      ELSE IF GoRefreshFails(resp)
             THEN [peer EXCEPT !.pending = FALSE]
             ELSE [peer EXCEPT !.accessToken = GoDecodedTok(resp),
                               !.tokenExpiry = ExpiryOf(now, GoDecodedExp(resp)),
                               !.pending = FALSE]

\* getAccessToken on the second instance finds no valid token and no pending
\* refresh, and sends its own token request.
PeerGetAccessToken ==
    /\ ~peer.pending
    /\ ~IsTokenValid(peer.accessToken, peer.tokenExpiry, now)
    /\ peer' = [peer EXCEPT !.pending = TRUE]
    /\ logged' = NoEvents
    /\ UNCHANGED <<api, san, cfg, cls, apiKey, maxRetries, rq, lang, now, ticks, accessToken,
                   tokenExpiry, tokenRefreshPromise, tokenMutex, refreshes, tokInFlight, c>>

\* Two instances that keep their token in one place shared by both.
PeerRefreshSettlesShared(resp) ==
    /\ peer.pending /\ ~peer.settled
    /\ peer' = PeerStores(resp)
    /\ accessToken' = PeerStores(resp).accessToken
    /\ tokenExpiry' = PeerStores(resp).tokenExpiry
    /\ logged' = NoEvents
    /\ UNCHANGED <<api, san, cfg, cls, apiKey, maxRetries, rq, lang, now, ticks,
                   tokenRefreshPromise, tokenMutex, refreshes, tokInFlight, c>>

\* The token request of the second instance is answered.
PeerRefreshSettles(resp) ==
    /\ peer.pending /\ ~peer.settled
    /\ peer' = PeerStores(resp)
    /\ logged' = NoEvents
    /\ UNCHANGED <<api, san, cfg, cls, apiKey, maxRetries, rq, lang, now, ticks, accessToken,
                   tokenExpiry, tokenRefreshPromise, tokenMutex, refreshes, tokInFlight, c>>

\* TypeScript: getAccessToken of the second instance resumes from
\* `await this.tokenRefreshPromise`: on success this.accessToken is written;
\* finally { this.tokenRefreshPromise = null }.
PeerGetAccessTokenResumes ==
    /\ lang = "ts"
    /\ peer.pending /\ peer.settled
    /\ peer' = [peer EXCEPT !.accessToken = IF peer.fetched # NoTok THEN peer.fetched ELSE @,
                            !.pending = FALSE, !.settled = FALSE, !.fetched = NoTok]
    /\ logged' = NoEvents
    /\ UNCHANGED <<api, san, cfg, cls, apiKey, maxRetries, rq, lang, now, ticks, accessToken,
                   tokenExpiry, tokenRefreshPromise, tokenMutex, refreshes, tokInFlight, c>>

\* -------------------------------------------------------------------- clock
Tick(d) ==
    /\ ticks < MaxTicks
    /\ logged' = NoEvents
    /\ now' = now + d
    /\ ticks' = ticks + 1
    /\ UNCHANGED <<peer, api, san, cfg, cls, apiKey, maxRetries, rq, lang, accessToken, tokenExpiry, tokenRefreshPromise, tokenMutex,
                   refreshes, tokInFlight, c>>

\* new HttpClient(config) / oway.New(config): the credential check either
\* throws (TS) or returns a nil client and an error (Go); nothing else in the
\* constructor can fail and nothing in it touches the network.
Construct ==
    /\ cfg.state = "new"
    /\ logged' = IF ConstructorRejects(cfg.clientId, cfg.clientSecret) THEN NoEvents
                 ELSE LET sc == [Scope(NoTok, NoKey, NoHeaders) EXCEPT
                                   !.baseUrl = ResolveBaseUrl(lang, cfg.argBaseUrl, cfg.envBaseUrl)]
                      IN [run |-> InitializedEvents(sc, lang),
                          twin |-> InitializedEvents(TwinScope(sc), lang)]
    /\ cfg' = IF ConstructorRejects(cfg.clientId, cfg.clientSecret)
                THEN [cfg EXCEPT !.state = "failed"]
                ELSE [cfg EXCEPT !.state = "built",
                        !.baseUrl = ResolveBaseUrl(lang, cfg.argBaseUrl, cfg.envBaseUrl),
                        !.tokenUrl = ResolveTokenUrl(lang, cfg.argTokenUrl, cfg.argBaseUrl,
                                                     cfg.envBaseUrl)]
    /\ UNCHANGED <<peer, api, san, cls, apiKey, maxRetries, rq, lang, now, ticks, accessToken, tokenExpiry,
                   tokenRefreshPromise, tokenMutex, refreshes, tokInFlight, c>>

\* ------------------------------------------------------------ specification
Init ==
    /\ lang \in {"ts", "go"}
    /\ now = StartTime
    /\ ticks = 0
    /\ accessToken = NoTok
    /\ tokenExpiry = 0
    /\ tokenRefreshPromise = NULL
    /\ tokenMutex = NULL
    /\ refreshes = <<>>
    /\ tokInFlight = 0
    /\ c = [p \in Callers |-> IdleCall]
    /\ maxRetries = 3
    /\ apiKey = NoKey
    /\ rq = [p \in Callers |-> IdleRequest]
    /\ cls = IdleCls
    /\ cfg = BuiltConfig
    /\ san = IdleSan
    /\ api = IdleApi
    /\ peer = IdlePeer
    /\ logged = NoEvents

Next ==
    \/ \E p \in Callers : GetAccessToken(p)
    \/ \E r \in DOMAIN refreshes, resp \in TokenResponses : RefreshTokenSettles(r, resp)
    \/ \E p \in Callers : GetAccessTokenResumes(p)
    \/ \E p \in Callers : JoinedCallSettles(p)
    \/ \E p \in Callers : GoFastPath(p)
    \/ \E p \in Callers : GoSlowPath(p)
    \/ \E p \in Callers, resp \in TokenResponses : GoRefreshReturns(p, resp)
    \/ \E d \in TickSteps : Tick(d)

Spec == Init /\ [][Next]_vars

\* The request executor of the TypeScript client, on top of its token cache.
InitReq ==
    /\ lang = "ts"
    /\ now = StartTime
    /\ ticks = 0
    /\ accessToken = NoTok
    /\ tokenExpiry = 0
    /\ tokenRefreshPromise = NULL
    /\ tokenMutex = NULL
    /\ refreshes = <<>>
    /\ tokInFlight = 0
    /\ c = [p \in ReqCallers |-> IdleCall]
    /\ maxRetries \in MaxRetriesValues
    /\ apiKey = NoKey
    /\ rq = [p \in ReqCallers |-> IdleRequest]
    /\ cls = IdleCls
    /\ cfg = BuiltConfig
    /\ san = IdleSan
    /\ api = IdleApi
    /\ peer = IdlePeer
    /\ logged = NoEvents

NextReq ==
    \/ \E p \in ReqCallers : GetAccessToken(p)
    \/ \E r \in DOMAIN refreshes, resp \in ReqTokenResponses : RefreshTokenSettles(r, resp)
    \/ \E p \in ReqCallers : GetAccessTokenResumes(p)
    \/ \E p \in ReqCallers : JoinedCallSettles(p)
    \/ \E p \in ReqCallers : RequestProceeds(p)
    \/ \E p \in ReqCallers : \E resp \in ResponsesFor(p) : AttemptSettles(p, resp)
    \/ \E p \in ReqCallers : \E resp \in ResponsesFor(p) : HeadersArrive(p, resp)
    \/ \E p \in ReqCallers : BodyArrives(p)
    \/ \E p \in ReqCallers : BackoffElapses(p)

SpecReq == InitReq /\ [][NextReq]_vars

\* request() called with options, on a client with or without a default key.
OptRequestIds == {NoId, "rid-opt"}
OptCompanyKeys == {NoKey, "ck"}
OptHeaders ==
    {NoHeaders,
     [n \in {HApiKey} |-> "hk"],
     [n \in {HContentType, HAuthorization, HRequestId} |->
        IF n = HContentType THEN "text/plain"
        ELSE IF n = HAuthorization THEN "Basic caller" ELSE "rid-hdr"]}
ConfigApiKeys == {NoKey, "dk"}

FirstCallOptions ==
    {[requestId |-> r, companyApiKey |-> k, headers |-> h] :
        r \in OptRequestIds, k \in OptCompanyKeys, h \in OptHeaders}
SecondCallOptions ==
    {[requestId |-> NoId, companyApiKey |-> k, headers |-> NoHeaders] : k \in {NoKey, "ck-2"}}

HdrTokenResponses ==
    {[kind |-> "http", status |-> 200, shape |-> "camel", tok |-> "tokA", exp |-> 301]}

HdrResourceResponses ==
    {Response(200, "json", NoId, "", "", "OK")}
    \cup {Response(s, "json", r, m, cd, "ST") :
            s \in {400, 503}, r \in {NoId, "rid-srv"}, m \in {"", "body message"},
            cd \in {"", "BODY_CODE"}}
    \cup {Response(s, "invalid", r, "", "", st) :
            s \in {400, 503}, r \in {NoId, "rid-srv"}, st \in {"", "ST"}}
    \cup {Response(400, "null", NoId, "", "", "ST")}

InitHdr ==
    /\ lang = "ts"
    /\ now = StartTime
    /\ ticks = 0
    /\ accessToken = NoTok
    /\ tokenExpiry = 0
    /\ tokenRefreshPromise = NULL
    /\ tokenMutex = NULL
    /\ refreshes = <<>>
    /\ tokInFlight = 0
    /\ c = [p \in ReqCallers |-> IdleCall]
    /\ maxRetries = 0
    /\ apiKey \in ConfigApiKeys
    /\ \E o1 \in FirstCallOptions, o2 \in SecondCallOptions :
          rq = [p \in ReqCallers |-> [IdleRequest EXCEPT !.opts = IF p = 1 THEN o1 ELSE o2]]
    /\ cls = IdleCls
    /\ cfg = BuiltConfig
    /\ san = IdleSan
    /\ api = IdleApi
    /\ peer = IdlePeer
    /\ logged = NoEvents

NextHdr ==
    \/ \E p \in ReqCallers : GetAccessToken(p)
    \/ \E r \in DOMAIN refreshes, resp \in HdrTokenResponses : RefreshTokenSettles(r, resp)
    \/ \E p \in ReqCallers : GetAccessTokenResumes(p)
    \/ \E p \in ReqCallers : JoinedCallSettles(p)
    \/ \E p \in ReqCallers : RequestProceeds(p)
    \/ \E p \in ReqCallers, resp \in HdrResourceResponses : HeadersArrive(p, resp)
    \/ \E p \in ReqCallers : BodyArrives(p)

SpecHdr == InitHdr /\ [][NextHdr]_vars

\* The two classifiers applied to one status code.
InitCls ==
    /\ lang = "ts"
    /\ now = StartTime
    /\ ticks = 0
    /\ accessToken = NoTok
    /\ tokenExpiry = 0
    /\ tokenRefreshPromise = NULL
    /\ tokenMutex = NULL
    /\ refreshes = <<>>
    /\ tokInFlight = 0
    /\ c = [p \in Callers |-> IdleCall]
    /\ maxRetries = 3
    /\ apiKey = NoKey
    /\ rq = [p \in Callers |-> IdleRequest]
    /\ cls \in {[IdleCls EXCEPT !.status = s] : s \in ClassifierInputs}
    /\ cfg = BuiltConfig
    /\ san = IdleSan
    /\ api = IdleApi
    /\ peer = IdlePeer
    /\ logged = NoEvents

NextCls == Classify

SpecCls == InitCls /\ [][NextCls]_vars

\* Construction of either client from a configuration whose credentials may
\* be missing, followed by the token calls a constructed client serves.
ConfigBaseUrls == {NoUrl, Production}
ConfigTokenUrls == {NoTokenUrl, Url("https://auth.example.test", "/token")}
EnvBaseUrls == {NoUrl, "https://rest-api.staging.test"}

InitNew ==
    /\ lang \in {"ts", "go"}
    /\ now = StartTime
    /\ ticks = 0
    /\ accessToken = NoTok
    /\ tokenExpiry = 0
    /\ tokenRefreshPromise = NULL
    /\ tokenMutex = NULL
    /\ refreshes = <<>>
    /\ tokInFlight = 0
    /\ c = [p \in Callers |-> IdleCall]
    /\ maxRetries = 3
    /\ apiKey = NoKey
    /\ rq = [p \in Callers |-> IdleRequest]
    /\ cls = IdleCls
    /\ cfg \in {[BuiltConfig EXCEPT !.state = "new", !.clientId = i, !.clientSecret = s,
                                    !.argBaseUrl = b, !.argTokenUrl = t, !.envBaseUrl = e,
                                    !.baseUrl = NoUrl, !.tokenUrl = NoTokenUrl] :
                   i \in {NoCredential, "cid"}, s \in {NoCredential, "sec"},
                   b \in ConfigBaseUrls, t \in ConfigTokenUrls, e \in EnvBaseUrls}
    /\ san = IdleSan
    /\ api = IdleApi
    /\ peer = IdlePeer
    /\ logged = NoEvents

NextNew ==
    \/ Construct
    \/ \E p \in Callers : GetAccessToken(p)
    \/ \E r \in DOMAIN refreshes, resp \in ReqTokenResponses : RefreshTokenSettles(r, resp)
    \/ \E p \in Callers : GetAccessTokenResumes(p)
    \/ \E p \in Callers : JoinedCallSettles(p)
    \/ \E p \in Callers : GoFastPath(p)
    \/ \E p \in Callers : GoSlowPath(p)
    \/ \E p \in Callers, resp \in ReqTokenResponses : GoRefreshReturns(p, resp)
    \/ \E d \in TickSteps : Tick(d)

SpecNew == InitNew /\ [][NextNew]_vars

\* sanitizeForLogging on its own, applied once to each input.
InitSan ==
    /\ lang = "ts"
    /\ now = StartTime
    /\ ticks = 0
    /\ accessToken = NoTok
    /\ tokenExpiry = 0
    /\ tokenRefreshPromise = NULL
    /\ tokenMutex = NULL
    /\ refreshes = <<>>
    /\ tokInFlight = 0
    /\ c = [p \in Callers |-> IdleCall]
    /\ maxRetries = 3
    /\ apiKey = NoKey
    /\ rq = [p \in Callers |-> IdleRequest]
    /\ cls = IdleCls
    /\ cfg = BuiltConfig
    /\ san \in {[IdleSan EXCEPT !.in = x] : x \in SanInputs}
    /\ api = IdleApi
    /\ peer = IdlePeer
    /\ logged = NoEvents

NextSan == Sanitize

SpecSan == InitSan /\ [][NextSan]_vars

\* Both clients with logging switched on or off: construction, token calls
\* and, for the TypeScript client, requests.
LogMaxRetriesValues == {-1, 1}
LogTokenResponses ==
    {[kind |-> "neterr", status |-> NoStatus, shape |-> "none", tok |-> NoTok, exp |-> 0],
     [kind |-> "http", status |-> 401, shape |-> "none", tok |-> NoTok, exp |-> 0],
     [kind |-> "http", status |-> 200, shape |-> "invalid", tok |-> NoTok, exp |-> 0],
     [kind |-> "http", status |-> 204, shape |-> "none", tok |-> NoTok, exp |-> 0],
     [kind |-> "http", status |-> 200, shape |-> "camel", tok |-> "tokA", exp |-> 301],
     [kind |-> "http", status |-> 200, shape |-> "snake", tok |-> "tokB", exp |-> 301]}
LogResourceResponses ==
    {NoResponse(k) : k \in {"neterr", "timeout"}}
    \cup {Response(200, b, NoId, "", "", "OK") : b \in {"json", "invalid"}}
    \cup {Response(400, "json", NoId, "", "", "ST"), Response(500, "json", "rid-srv", "", "", "ST")}
    \cup {Response(500, "null", NoId, "", "", "ST")}
LogCallOptions ==
    {NoOptions,
     [requestId |-> NoId, companyApiKey |-> "ck", headers |-> [n \in {HApiKey} |-> "hk"]]}

InitLog ==
    /\ lang \in {"ts", "go"}
    /\ now = StartTime
    /\ ticks = 0
    /\ accessToken = NoTok
    /\ tokenExpiry = 0
    /\ tokenRefreshPromise = NULL
    /\ tokenMutex = NULL
    /\ refreshes = <<>>
    /\ tokInFlight = 0
    /\ c = [p \in ReqCallers |-> IdleCall]
    /\ maxRetries \in LogMaxRetriesValues
    /\ apiKey \in ConfigApiKeys
    /\ \E o \in LogCallOptions :
          rq = [p \in ReqCallers |-> [IdleRequest EXCEPT !.opts = IF p = 1 THEN o ELSE NoOptions]]
    /\ cls = IdleCls
    /\ cfg \in {[BuiltConfig EXCEPT !.state = "new", !.debug = d, !.logger = l,
                                    !.argBaseUrl = b] :
                   d \in BOOLEAN, l \in BOOLEAN, b \in ConfigBaseUrls}
    /\ san = IdleSan
    /\ api = IdleApi
    /\ peer = IdlePeer
    /\ logged = NoEvents

NextLog ==
    \/ Construct
    \/ \E p \in ReqCallers : GetAccessToken(p)
    \/ \E r \in DOMAIN refreshes, resp \in LogTokenResponses : RefreshTokenSettles(r, resp)
    \/ \E p \in ReqCallers : GetAccessTokenResumes(p)
    \/ \E p \in ReqCallers : JoinedCallSettles(p)
    \/ \E p \in ReqCallers : GoFastPath(p)
    \/ \E p \in ReqCallers : GoSlowPath(p)
    \/ \E p \in ReqCallers, resp \in LogTokenResponses : GoRefreshReturns(p, resp)
    \/ \E p \in ReqCallers : RequestProceeds(p)
    \/ \E p \in ReqCallers : \E resp \in LogResourceResponses : AttemptSettles(p, resp)
    \/ \E p \in ReqCallers : \E resp \in LogResourceResponses : HeadersArrive(p, resp)
    \/ \E p \in ReqCallers : BodyArrives(p)
    \/ \E p \in ReqCallers : BackoffElapses(p)

SpecLog == InitLog /\ [][NextLog]_vars

\* Requests of the TypeScript client whose responses arrive in two parts,
\* the headers and then the body, while the timeout of the attempt may elapse.
TimeMaxRetriesValues == {0, 1}
TimeResourceResponses ==
    {Response(200, b, NoId, "", "", "OK") : b \in {"json", "invalid"}}
    \cup {Response(s, b, NoId, "", "", "ST") : s \in {400, 500}, b \in {"json", "invalid"}}
TimeImmediateResponses ==
    {NoResponse("neterr"), Response(204, "none", NoId, "", "", "No Content")}

InitTime ==
    /\ lang = "ts"
    /\ now = StartTime
    /\ ticks = 0
    /\ accessToken = NoTok
    /\ tokenExpiry = 0
    /\ tokenRefreshPromise = NULL
    /\ tokenMutex = NULL
    /\ refreshes = <<>>
    /\ tokInFlight = 0
    /\ c = [p \in ReqCallers |-> IdleCall]
    /\ maxRetries \in TimeMaxRetriesValues
    /\ apiKey = NoKey
    /\ rq = [p \in ReqCallers |-> IdleRequest]
    /\ cls = IdleCls
    /\ cfg = BuiltConfig
    /\ san = IdleSan
    /\ api = IdleApi
    /\ peer = IdlePeer
    /\ logged = NoEvents

NextTime ==
    \/ \E p \in ReqCallers : GetAccessToken(p)
    \/ \E r \in DOMAIN refreshes, resp \in HdrTokenResponses : RefreshTokenSettles(r, resp)
    \/ \E p \in ReqCallers : GetAccessTokenResumes(p)
    \/ \E p \in ReqCallers : JoinedCallSettles(p)
    \/ \E p \in ReqCallers : RequestProceeds(p)
    \/ \E p \in ReqCallers : \E resp \in TimeResourceResponses : HeadersArrive(p, resp)
    \/ \E p \in ReqCallers : BodyArrives(p)
    \/ \E p \in ReqCallers : TimeoutElapses(p)
    \/ \E p \in ReqCallers : \E resp \in TimeImmediateResponses : AttemptSettles(p, resp)
    \/ \E p \in ReqCallers : BackoffElapses(p)

SpecTime == InitTime /\ [][NextTime]_vars

\* The same with what the runtime guarantees: a continuation whose promise
\* has settled runs, and a timer that is due fires. Nothing makes a server
\* answer, and nothing makes a caller start a call.
SpecTimeFair ==
    /\ SpecTime
    /\ \A p \in ReqCallers :
          /\ WF_vars(GetAccessTokenResumes(p))
          /\ WF_vars(JoinedCallSettles(p))
          /\ WF_vars(RequestProceeds(p))
          /\ WF_vars(TimeoutElapses(p))
          /\ WF_vars(BackoffElapses(p))

\* Both clients sending a request on top of their token cache, the token
\* endpoint answering in either casing.
SendTokenResponses ==
    {[kind |-> "neterr", status |-> NoStatus, shape |-> "none", tok |-> NoTok, exp |-> 0],
     [kind |-> "http", status |-> 500, shape |-> "none", tok |-> NoTok, exp |-> 0],
     [kind |-> "http", status |-> 200, shape |-> "invalid", tok |-> NoTok, exp |-> 0]}
    \cup {[kind |-> "http", status |-> 200, shape |-> sh, tok |-> "tokA", exp |-> 3600] :
             sh \in {"camel", "snake"}}
    \cup {[kind |-> "http", status |-> 200, shape |-> sh, tok |-> "tokB", exp |-> 300] :
             sh \in {"camel", "snake"}}
    \cup {[kind |-> "http", status |-> 200, shape |-> "snake", tok |-> NoTok, exp |-> 3600],
          [kind |-> "http", status |-> 200, shape |-> "snake", tok |-> "tokA", exp |-> 0]}
SendResourceResponses == {Response(200, "json", NoId, "", "", "OK")}

InitSend ==
    /\ lang \in {"ts", "go"}
    /\ now = StartTime
    /\ ticks = 0
    /\ accessToken = NoTok
    /\ tokenExpiry = 0
    /\ tokenRefreshPromise = NULL
    /\ tokenMutex = NULL
    /\ refreshes = <<>>
    /\ tokInFlight = 0
    /\ c = [p \in ReqCallers |-> IdleCall]
    /\ maxRetries = 0
    /\ apiKey \in ConfigApiKeys
    /\ rq = [p \in ReqCallers |-> IdleRequest]
    /\ cls = IdleCls
    /\ cfg = BuiltConfig
    /\ san = IdleSan
    /\ api = IdleApi
    /\ peer = IdlePeer
    /\ logged = NoEvents

NextSend ==
    \/ \E p \in ReqCallers : GetAccessToken(p)
    \/ \E r \in DOMAIN refreshes, resp \in SendTokenResponses : RefreshTokenSettles(r, resp)
    \/ \E p \in ReqCallers : GetAccessTokenResumes(p)
    \/ \E p \in ReqCallers : JoinedCallSettles(p)
    \/ \E p \in ReqCallers : RequestProceeds(p)
    \/ \E p \in ReqCallers : \E resp \in SendResourceResponses : HeadersArrive(p, resp)
    \/ \E p \in ReqCallers : BodyArrives(p)
    \/ \E p \in ReqCallers : GoFastPath(p)
    \/ \E p \in ReqCallers : GoSlowPath(p)
    \/ \E p \in ReqCallers, resp \in SendTokenResponses : GoRefreshReturns(p, resp)
    \/ \E p \in ReqCallers, ctx \in GoContexts : GoRoundTrip(p, ctx)
    \/ \E d \in TickSteps : Tick(d)

SpecSend == InitSend /\ [][NextSend]_vars

\* Calls through the resource facades of both clients and through the tool
\* adapter of the TypeScript package, made by ApiCaller on a new client
\* while a second caller makes a request of its own on the same client.
ApiKeys == {NoKey, "ck", "ck-2"}

\* The token endpoint: a transport failure, an error status, an empty 200,
\* and a token in either casing.
ApiTokenResponses ==
    {[kind |-> "neterr", status |-> NoStatus, shape |-> "none", tok |-> NoTok, exp |-> 0],
     [kind |-> "http", status |-> 500, shape |-> "none", tok |-> NoTok, exp |-> 0],
     [kind |-> "http", status |-> 200, shape |-> "none", tok |-> NoTok, exp |-> 0],
     [kind |-> "http", status |-> 200, shape |-> "camel", tok |-> "tokA", exp |-> 3600],
     [kind |-> "http", status |-> 200, shape |-> "snake", tok |-> "tokA", exp |-> 3600]}

\* The resource endpoint, answering the call made through the facade.
ApiResourceResponses ==
    {Response(200, b, NoId, "", "", "OK") : b \in {"json", "invalid"}}
    \cup {Response(404, "json", r, "Not found", cd, "Not Found") :
             r \in {NoId, "rid-1"}, cd \in {"", "NOT_FOUND"}}
    \cup {Response(503, "json", NoId, "", "", "Service Unavailable")}
ApiImmediateResponses ==
    {NoResponse("neterr"), Response(204, "none", NoId, "", "", "No Content")}

\* The answers drawn for the request of the second caller.
ApiSecondResponses == {Response(200, "json", NoId, "", "", "OK")}

InitApi ==
    /\ lang \in {"ts", "go"}
    /\ now = StartTime
    /\ ticks = 0
    /\ accessToken = NoTok
    /\ tokenExpiry = 0
    /\ tokenRefreshPromise = NULL
    /\ tokenMutex = NULL
    /\ refreshes = <<>>
    /\ tokInFlight = 0
    /\ c = [p \in ReqCallers |-> IdleCall]
    /\ maxRetries = 3
    /\ apiKey = NoKey
    /\ rq = [p \in ReqCallers |-> IdleRequest]
    /\ cls = IdleCls
    /\ cfg = BuiltConfig
    /\ san = IdleSan
    /\ api = IdleApi
    /\ peer = IdlePeer
    /\ logged = NoEvents

NextApi ==
    \/ \E m \in FacadeMethods, k \in ApiKeys : FacadeCall(m, k)
    \/ \E t \in ToolNames, k \in ApiKeys : ExecuteTool(t, k)
    \/ \E p \in ReqCallers \ {ApiCaller} : GetAccessToken(p)
    \/ \E r \in DOMAIN refreshes, resp \in ApiTokenResponses : RefreshTokenSettles(r, resp)
    \/ \E p \in ReqCallers : GetAccessTokenResumes(p)
    \/ \E p \in ReqCallers : JoinedCallSettles(p)
    \/ \E p \in ReqCallers : RequestProceeds(p)
    \/ \E resp \in ApiImmediateResponses : AttemptSettles(ApiCaller, resp)
    \/ \E resp \in ApiResourceResponses : HeadersArrive(ApiCaller, resp)
    \/ \E p \in ReqCallers \ {ApiCaller}, resp \in ApiSecondResponses : HeadersArrive(p, resp)
    \/ \E p \in ReqCallers : BodyArrives(p)
    \/ \E p \in ReqCallers : BackoffElapses(p)
    \/ ExecutorSettles
    \/ ExecuteToolResumes
    \/ \E m \in GoFacadeMethods, f \in BOOLEAN, k \in ApiKeys : GoFacadeCall(m, f, k)
    \/ \E p \in ReqCallers \ {ApiCaller} : GoFastPath(p)
    \/ \E p \in ReqCallers : GoSlowPath(p)
    \/ \E p \in ReqCallers, resp \in ApiTokenResponses : GoRefreshReturns(p, resp)
    \/ \E p \in ReqCallers : GoRoundTrip(p, rq[p].ctx)
    \/ \E a \in GoApiAnswers : GoFacadeReturns(a)
    \/ GoFacadeFails

SpecApi == InitApi /\ [][NextApi]_vars

\* Two client instances in one process: the first one sending requests, the
\* second one refreshing its own token.
PeerTokenResponses ==
    {[kind |-> "http", status |-> 500, shape |-> "none", tok |-> NoTok, exp |-> 0]}
    \cup {[kind |-> "http", status |-> 200, shape |-> sh, tok |-> "tokB", exp |-> 3600] :
             sh \in {"camel", "snake"}}

InitTwo ==
    /\ lang \in {"ts", "go"}
    /\ now = StartTime
    /\ ticks = 0
    /\ accessToken = NoTok
    /\ tokenExpiry = 0
    /\ tokenRefreshPromise = NULL
    /\ tokenMutex = NULL
    /\ refreshes = <<>>
    /\ tokInFlight = 0
    /\ c = [p \in ReqCallers |-> IdleCall]
    /\ maxRetries = 0
    /\ apiKey \in ConfigApiKeys
    /\ rq = [p \in ReqCallers |-> IdleRequest]
    /\ cls = IdleCls
    /\ cfg = BuiltConfig
    /\ san = IdleSan
    /\ api = IdleApi
    /\ peer = IdlePeer
    /\ logged = NoEvents

NextTwo ==
    \/ \E p \in ReqCallers : GetAccessToken(p)
    \/ \E r \in DOMAIN refreshes, resp \in SendTokenResponses : RefreshTokenSettles(r, resp)
    \/ \E p \in ReqCallers : GetAccessTokenResumes(p)
    \/ \E p \in ReqCallers : JoinedCallSettles(p)
    \/ \E p \in ReqCallers : RequestProceeds(p)
    \/ \E p \in ReqCallers : \E resp \in SendResourceResponses : HeadersArrive(p, resp)
    \/ \E p \in ReqCallers : BodyArrives(p)
    \/ \E p \in ReqCallers : GoFastPath(p)
    \/ \E p \in ReqCallers : GoSlowPath(p)
    \/ \E p \in ReqCallers, resp \in SendTokenResponses : GoRefreshReturns(p, resp)
    \/ \E p \in ReqCallers, ctx \in GoContexts : GoRoundTrip(p, ctx)
    \/ PeerGetAccessToken
    \/ \E resp \in PeerTokenResponses : PeerRefreshSettles(resp)
    \/ PeerGetAccessTokenResumes
    \/ \E d \in TickSteps : Tick(d)

SpecTwo == InitTwo /\ [][NextTwo]_vars

TypeOK ==
    /\ tokInFlight \in 0..Len(refreshes)
    /\ tokenRefreshPromise \in 0..Len(refreshes)
    /\ DOMAIN c = DOMAIN rq
\* ==================================================================== claims
\* Refreshes whose token request was sent and whose starting call has not
\* yet resumed.
RefreshInProgress == {r \in DOMAIN refreshes : c[refreshes[r].by].pc = "awaitRefresh"}

\* The cached token as the claims describe it: present, and expiring more
\* than five minutes after the current time.
CachedTokenFresh == accessToken # NoTok /\ tokenExpiry > now + 300000

Starts(p) == c[p].pc = "idle" /\ c'[p].pc # "idle"

\* C1: TypeScript: calls made while a refresh is in progress send no token
\* request and await that refresh; a call made with no valid token and no
\* refresh in progress sends exactly one; when the refresh succeeds, every
\* call that started or awaited it resolves to the token it returned.
C1_SingleFlight ==
    /\ [](lang = "ts" =>
            \A p \in DOMAIN c :
                (c[p].pc = "tokDone" /\ c[p].ref # NULL /\ refreshes[c[p].ref].state = "fulfilled")
                    => c[p].result = OkResult(refreshes[c[p].ref].tok))
    /\ [][lang = "ts" =>
            \A p \in DOMAIN c : Starts(p) =>
                IF RefreshInProgress # {}
                THEN Len(refreshes') = Len(refreshes) /\ c'[p].ref \in RefreshInProgress
                ELSE IF ~CachedTokenFresh
                THEN Len(refreshes') = Len(refreshes) + 1 /\ c'[p].ref = Len(refreshes')
                ELSE Len(refreshes') = Len(refreshes)]_vars

\* Two calls resolved to the same token of one successful refresh, one of
\* them having joined it while it was pending.
C1_Witness ==
    /\ lang = "ts"
    /\ \E p, q \in DOMAIN c :
        /\ c[p].via = "refresh" /\ c[q].via = "joined" /\ c[q].ref = c[p].ref
        /\ c[p].pc = "tokDone" /\ c[q].pc = "tokDone"
        /\ c[p].result.kind = "ok" /\ c[q].result = c[p].result
        /\ Len(refreshes) = 1

\* C2: in every reachable state at most one token-endpoint request of the
\* client instance is in flight.
C2_AtMostOneInFlight ==
    /\ tokInFlight <= 1
    /\ Cardinality({r \in DOMAIN refreshes : refreshes[r].state = "inflight"}) <= 1

\* A token request is in flight while another call is held back.
C2_Witness ==
    \E p, q \in DOMAIN c :
        /\ tokInFlight = 1
        /\ c[p].pc = "refreshing" /\ c[q].pc = "wantLock"

\* C3: a call made while a token is cached whose expiry is more than five
\* minutes away and no refresh is pending returns that token at once and
\* sends nothing to the token endpoint.
C3_CacheHitNoRequest ==
    [][\A p \in DOMAIN c :
          (Starts(p) /\ CachedTokenFresh /\ tokenRefreshPromise = NULL /\ tokenMutex = NULL)
              => /\ c'[p].pc = "tokDone"
                 /\ c'[p].result = OkResult(accessToken)
                 /\ refreshes' = refreshes
                 /\ tokInFlight' = tokInFlight]_vars

\* A call returned the cached token after an earlier refresh had stored it.
C3_Witness ==
    \E p \in DOMAIN c :
        /\ c[p].pc = "tokDone" /\ c[p].via = "cache"
        /\ c[p].result.tok \in TokValues
        /\ Len(refreshes) = 1 /\ tokInFlight = 0

\* C4: the cached token is returned without I/O only when a token is cached
\* and now + 5 min < expiry (the boundary is not valid); every other
\* successful call returns the token of a refresh it started or awaited.
C4_NoStaleCacheReturn ==
    /\ [][\A p \in DOMAIN c :
            (c'[p].via \in {"cache", "recheck"} /\ c[p].via \notin {"cache", "recheck"})
                => (accessToken # NoTok /\ now + 300000 < tokenExpiry)]_vars
    /\ [](\A p \in DOMAIN c :
            (c[p].pc = "tokDone" /\ c[p].result.kind = "ok" /\ c[p].via # "cache")
                => /\ c[p].ref # NULL
                   /\ refreshes[c[p].ref].state = "fulfilled"
                   /\ c[p].result.tok = refreshes[c[p].ref].tok)

\* A call is refreshing although a token is cached, because the current
\* time is exactly five minutes before its expiry.
C4_Witness ==
    \E p \in DOMAIN c :
        /\ c[p].pc \in {"awaitRefresh", "refreshing"}
        /\ accessToken # NoTok
        /\ now + 300000 = tokenExpiry
        /\ refreshes[c[p].ref].state = "inflight"

\* The refresh sent last has failed and the call that started it has rejected.
LastRefreshFailed ==
    /\ Len(refreshes) > 0
    /\ refreshes[Len(refreshes)].state = "rejected"
    /\ c[refreshes[Len(refreshes)].by].pc # "awaitRefresh"

\* C5: TypeScript: when a refresh fails, the call that started it rejects
\* with an OwayError, accessToken and tokenExpiry have the values they had
\* before the refresh, the pending marker is null, and the next call sends a
\* new token request.
C5_FailedRefreshLeavesNoTrace ==
    /\ [][lang = "ts" =>
            \A p \in DOMAIN c :
                (c[p].pc = "awaitRefresh" /\ c'[p].pc = "tokDone" /\ c'[p].result.kind = "err")
                    => /\ c'[p].result.err.isOway
                       /\ accessToken' = refreshes[c[p].ref].preTok
                       /\ tokenExpiry' = refreshes[c[p].ref].preExpiry
                       /\ tokenRefreshPromise' = NULL]_vars
    /\ [][lang = "ts" =>
            \A p \in DOMAIN c :
                (Starts(p) /\ LastRefreshFailed /\ tokenRefreshPromise = NULL)
                    => Len(refreshes') = Len(refreshes) + 1]_vars

\* A refresh failed on a transport error, its call rejected, and a later call
\* has sent a new token request.
C5_Witness ==
    /\ lang = "ts"
    /\ \E p, q \in DOMAIN c :
        /\ c[p].pc = "tokDone" /\ c[p].via = "refresh" /\ c[p].result.kind = "err"
        /\ c[p].result.err.code = "AUTH_ERROR"
        /\ c[q].via = "refresh" /\ c[q].ref > c[p].ref

\* C6: TypeScript: when a refresh fails, every call that started or joined
\* it rejects with that failure, and a call that joined sent no token
\* request of its own.
C6_FailureReachesAllWaiters ==
    lang = "ts" =>
        \A p \in DOMAIN c :
            (c[p].pc = "tokDone" /\ c[p].ref # NULL /\ refreshes[c[p].ref].state = "rejected")
                => /\ c[p].result = ErrResult(refreshes[c[p].ref].err)
                   /\ (c[p].via = "joined" => \A r \in DOMAIN refreshes : refreshes[r].by # p)

\* The call that started a refresh and a call that joined it both rejected
\* with the failure of that refresh.
C6_Witness ==
    /\ lang = "ts"
    /\ \E p, q \in DOMAIN c :
        /\ c[p].via = "refresh" /\ c[q].via = "joined" /\ c[q].ref = c[p].ref
        /\ c[p].pc = "tokDone" /\ c[q].pc = "tokDone"
        /\ c[p].result.kind = "err" /\ c[q].result = c[p].result

\* C7: a request() call sends at most maxRetries + 1 attempts.
C7_AttemptsBounded ==
    \A p \in DOMAIN rq : rq[p].sent <= maxRetries + 1

\* A call has used all of its maxRetries + 1 = 4 attempts.
C7_Witness ==
    \E p \in DOMAIN rq :
        maxRetries = 3 /\ rq[p].sent = 4 /\ c[p].pc = "reqDone" /\ rq[p].res = "err"

\* The attempt of p ends in this step: fetch rejects, or the handler is done
\* with the response.
AttemptEnds(p) ==
    c[p].pc \in {"fetching", "reading"} /\ c'[p].pc \notin {"fetching", "reading"}

\* A 429, a 5xx other than 501, or a transport/timeout failure.
TransientFailure(resp) ==
    \/ resp.kind \in {"neterr", "timeout"}
    \/ resp.kind = "http" /\ (resp.status = 429 \/ (resp.status >= 500 /\ resp.status # 501))

\* Any 4xx other than 429, or 501.
NonRetryableStatus(resp) ==
    /\ resp.kind = "http"
    /\ \/ resp.status >= 400 /\ resp.status <= 499 /\ resp.status # 429
       \/ resp.status = 501

\* C8: a further attempt is sent only after an attempt that ended in a
\* transient failure; after a 2xx response no further attempt is sent.
C8_RetryOnlyAfterTransient ==
    [][\A p \in DOMAIN rq :
          (rq'[p].sent > rq[p].sent /\ rq[p].sent > 0) => TransientFailure(rq[p].last)]_vars

\* C9: an attempt answered with a non-retryable status makes request()
\* reject with that error, without a backoff sleep and without a further
\* attempt.
C9_NonRetryableRejectsAtOnce ==
    [][\A p \in DOMAIN rq :
          (AttemptEnds(p) /\ NonRetryableStatus(rq'[p].last))
              => /\ c'[p].pc = "reqDone"
                 /\ rq'[p].res = "err"
                 /\ rq'[p].err.status = rq'[p].last.status
                 /\ rq'[p].sleeps = rq[p].sleeps]_vars

\* C10: after attempt k < maxRetries ends in a retryable failure the call
\* sleeps 2^k * 1000 ms before attempt k + 1, and it never sleeps after the
\* final attempt; three 500 responses followed by a 200, with maxRetries = 3,
\* succeed after 4 attempts with delays of 1000, 2000 and 4000 ms.
C10_ExponentialBackoff ==
    /\ [](\A p \in DOMAIN rq :
            /\ \A k \in 1..Len(rq[p].sleeps) : rq[p].sleeps[k] = 2^(k - 1) * 1000
            /\ Len(rq[p].sleeps) = (IF c[p].pc = "sleeping" THEN rq[p].sent
                                    ELSE IF rq[p].sent = 0 THEN 0 ELSE rq[p].sent - 1)
            /\ (c[p].pc = "sleeping" => rq[p].attempt < maxRetries)
            /\ (maxRetries = 3 /\ rq[p].n500 = 3 /\ rq[p].sent = 4 /\ c[p].pc = "reqDone"
                    /\ rq[p].last.status = 200 /\ rq[p].last.body = "json")
                 => (rq[p].res = "ok" /\ rq[p].sleeps = <<1000, 2000, 4000>>))
    /\ [][\A p \in DOMAIN rq :
            (AttemptEnds(p) /\ TransientFailure(rq'[p].last))
                => IF rq[p].attempt < maxRetries
                   THEN c'[p].pc = "sleeping"
                        /\ rq'[p].sleeps = Append(rq[p].sleeps, 2^(rq[p].attempt) * 1000)
                   ELSE c'[p].pc = "reqDone" /\ rq'[p].sleeps = rq[p].sleeps]_vars

\* Three 500 responses and then a 200: success at the fourth attempt.
C10_Witness ==
    \E p \in DOMAIN rq :
        /\ maxRetries = 3 /\ rq[p].n500 = 3 /\ rq[p].sent = 4
        /\ c[p].pc = "reqDone" /\ rq[p].res = "ok"
        /\ rq[p].sleeps = <<1000, 2000, 4000>>

\* C11: on every retry the attempt carries the token that is current at that
\* attempt: when the cache holds a valid token as a retry is sent, the retry's
\* Authorization header is that token.
C11_RetryCarriesCurrentToken ==
    [][\A p \in DOMAIN rq :
          (rq[p].sent > 0 /\ rq'[p].sent > rq[p].sent
              /\ CachedTokenFresh /\ tokenRefreshPromise = NULL
              /\ HAuthorization \notin DOMAIN rq[p].opts.headers)
              => rq'[p].carried[HAuthorization] = Bearer(accessToken)]_vars

\* C11 (amended): the token is resolved once per call, before the first
\* attempt; every attempt of the call carries the headers composed then, with
\* that token, whatever happens to the cache between attempts.
C11_TokenResolvedOncePerCall ==
    /\ [](\A p \in DOMAIN rq :
            rq[p].sent > 0 =>
                /\ rq[p].carried = rq[p].headers
                /\ (HAuthorization \notin DOMAIN rq[p].opts.headers
                        => rq[p].carried[HAuthorization] = Bearer(rq[p].token)))
    /\ [][\A p \in DOMAIN rq :
            /\ (rq[p].sent = 0 /\ rq'[p].sent = 1) => rq'[p].token = c[p].result.tok
            /\ rq[p].sent > 0 => (rq'[p].token = rq[p].token /\ rq'[p].headers = rq[p].headers)]_vars

\* A retry was sent with the token of the first attempt although the cache
\* by then held another, valid token.
C11_Witness ==
    \E p \in DOMAIN rq :
        /\ rq[p].sent >= 2 /\ c[p].pc = "fetching"
        /\ CachedTokenFresh
        /\ rq[p].carried[HAuthorization] = Bearer(rq[p].token)
        /\ rq[p].token # accessToken

\* fetch rejected: a transport failure or the abort of the timeout.
NoStatusFailure(resp) == resp.kind \in {"neterr", "timeout"}

\* C12: an attempt that ends in a transport failure or a timeout leaves an
\* error without a status code and, while attempts remain, is followed by the
\* backoff sleep and a further attempt; after the last attempt the call
\* rejects.
C12_TransportFailureIsRetried ==
    /\ [][\A p \in DOMAIN rq :
            (AttemptEnds(p) /\ NoStatusFailure(rq'[p].last))
                => /\ rq'[p].lastError.status = 0
                   /\ IF rq[p].attempt < maxRetries
                      THEN /\ c'[p].pc = "sleeping"
                           /\ rq'[p].sleeps = Append(rq[p].sleeps, 2^(rq[p].attempt) * 1000)
                      ELSE c'[p].pc = "reqDone" /\ rq'[p].res = "err"]_vars
    /\ [][\A p \in DOMAIN rq :
            (c[p].pc = "sleeping" /\ c'[p].pc # "sleeping" /\ NoStatusFailure(rq[p].last))
                => c'[p].pc = "fetching" /\ rq'[p].sent = rq[p].sent + 1]_vars

\* A second attempt is in flight after the first one timed out and the call
\* slept one second.
C12_Witness ==
    \E p \in DOMAIN rq :
        /\ c[p].pc = "fetching" /\ rq[p].sent = 2
        /\ rq[p].last.kind = "timeout"
        /\ rq[p].sleeps = <<1000>>

\* C13: for every HTTP status code both classifiers answer true exactly for
\* 429 and for the codes >= 500 other than 501.
C13_ClassifierTable ==
    cls.done =>
        LET expected == cls.status = 429 \/ (cls.status >= 500 /\ cls.status # 501)
        IN /\ cls.ts = expected
           /\ cls.go = expected

\* 501 was classified: neither classifier retries it.
C13_Witness ==
    cls.done /\ cls.status = 501 /\ ~cls.ts /\ ~cls.go

\* C14: every failure that request() surfaces after sending an attempt is an
\* OwayError with a message, a code, the status of the response when there
\* was one, and a request id.
C14_SurfacedErrorsAreOwayErrors ==
    \A p \in DOMAIN rq :
        (c[p].pc = "reqDone" /\ rq[p].res = "err" /\ rq[p].sent > 0)
            => /\ rq[p].err.isOway
               /\ rq[p].err.msg # ""
               /\ rq[p].err.code # ""
               /\ (rq[p].last.kind = "http" => rq[p].err.status = rq[p].last.status)
               /\ rq[p].err.rid # ""

\* C15: for a non-2xx response the attempt throws an OwayError whose status
\* is the response status, whose message and code are those of the response
\* body when it provides them and a fallback otherwise, and whose request id
\* is the x-request-id header of the response when present, else the request
\* id that was sent with the request.
C15_ErrorBuiltFromResponse ==
    [][\A p \in DOMAIN rq :
          (AttemptEnds(p) /\ rq'[p].last.kind = "http"
              /\ ~(rq'[p].last.status >= 200 /\ rq'[p].last.status <= 299))
              => LET r == rq'[p].last
                     e == rq'[p].lastError
                 IN /\ e.isOway
                    /\ e.status = r.status
                    /\ IF r.body = "json" /\ r.msg # ""
                       THEN e.msg = r.msg
                       ELSE e.msg # "" /\ e.msg \in {r.statusText, "Request failed with status"}
                    /\ IF r.body = "json" /\ r.code # ""
                       THEN e.code = r.code
                       ELSE e.code = "API_ERROR"
                    /\ IF r.rid # ""
                       THEN e.rid = r.rid
                       ELSE e.rid = rq[p].carried[HRequestId]]_vars

\* C16: a call whose maxRetries + 1 attempts all ended in a retryable failure
\* rejects with the error of its last attempt; the MAX_RETRIES_EXCEEDED error
\* is raised only by a call that made no attempt.
C16_LastErrorSurfaces ==
    \A p \in DOMAIN rq :
        /\ (c[p].pc = "reqDone" /\ rq[p].res = "err" /\ rq[p].sent > 0
                /\ rq[p].sent = maxRetries + 1 /\ TransientFailure(rq[p].last))
            => /\ rq[p].err = rq[p].lastError
               /\ rq[p].err.code # "MAX_RETRIES_EXCEEDED"
               /\ (rq[p].last.kind = "neterr" => rq[p].err.msg = "fetch failed")
               /\ (rq[p].last.kind = "timeout" => rq[p].err.msg = "This operation was aborted")
               /\ (rq[p].last.kind = "http" /\ rq[p].last.body = "json"
                      => rq[p].err.isOway /\ rq[p].err.status = rq[p].last.status)
        /\ (rq[p].res = "err" /\ rq[p].err.code = "MAX_RETRIES_EXCEEDED")
            => (rq[p].sent = 0 /\ maxRetries < 0)

\* With maxRetries = 1, a 500 and then a timeout: the call rejected with the
\* abort error of the second attempt.
C16_Witness ==
    \E p \in DOMAIN rq :
        /\ maxRetries = 1 /\ rq[p].sent = 2 /\ rq[p].n500 = 1
        /\ c[p].pc = "reqDone" /\ rq[p].res = "err"
        /\ rq[p].last.kind = "timeout"
        /\ rq[p].err.msg = "This operation was aborted"

\* C17: an attempt answered 204 ends the call with the empty result, without
\* a sleep, and a finished call sends nothing more.
C17_NoContentSucceeds ==
    /\ [][\A p \in DOMAIN rq :
            (AttemptEnds(p) /\ rq'[p].last.kind = "http" /\ rq'[p].last.status = 204)
                => /\ c'[p].pc = "reqDone"
                   /\ rq'[p].res = "ok"
                   /\ rq'[p].val = "empty"
                   /\ rq'[p].sleeps = rq[p].sleeps]_vars
    /\ [][\A p \in DOMAIN rq : c[p].pc = "reqDone" => rq'[p] = rq[p]]_vars

\* A 500, one retry, then a 204 without a body: the call succeeded with the
\* empty result.
C17_Witness ==
    \E p \in DOMAIN rq :
        /\ c[p].pc = "reqDone" /\ rq[p].res = "ok" /\ rq[p].val = "empty"
        /\ rq[p].last.status = 204 /\ rq[p].last.body = "none"
        /\ rq[p].sent = 2 /\ rq[p].n500 = 1

\* The company key the claims describe for a call: the per-call key when one
\* is supplied, otherwise the client's default key ("": neither).
ExpectedKey(o) == IF o.companyApiKey # "" THEN o.companyApiKey ELSE apiKey

\* C18: the x-oway-api-key header of every attempt is the per-call
\* companyApiKey when one is supplied, otherwise the client's default apiKey
\* when one is configured, otherwise the header is absent; no call changes
\* the client's default key.
C18_TenantKeyOrAbsent ==
    /\ [](\A p \in DOMAIN rq :
            rq[p].sent > 0 =>
                IF ExpectedKey(rq[p].opts) # ""
                THEN /\ HApiKey \in DOMAIN rq[p].carried
                     /\ rq[p].carried[HApiKey] = ExpectedKey(rq[p].opts)
                ELSE HApiKey \notin DOMAIN rq[p].carried)
    /\ [][apiKey' = apiKey]_vars

\* C18 (amended): as above, but when neither key exists request() adds no
\* x-oway-api-key header of its own: the header is then absent unless the
\* caller supplied it in options.headers, whose value is sent.
C18_TenantKeyPrecedence ==
    /\ [](\A p \in DOMAIN rq :
            rq[p].sent > 0 =>
                IF ExpectedKey(rq[p].opts) # ""
                THEN /\ HApiKey \in DOMAIN rq[p].carried
                     /\ rq[p].carried[HApiKey] = ExpectedKey(rq[p].opts)
                ELSE IF HApiKey \in DOMAIN rq[p].opts.headers
                THEN /\ HApiKey \in DOMAIN rq[p].carried
                     /\ rq[p].carried[HApiKey] = rq[p].opts.headers[HApiKey]
                ELSE HApiKey \notin DOMAIN rq[p].carried)
    /\ [][apiKey' = apiKey]_vars

\* One call was sent with its per-call key and another call, made without a
\* per-call key, with the client's default key.
C18_Witness ==
    \E p, q \in DOMAIN rq :
        /\ rq[p].sent > 0 /\ rq[q].sent > 0
        /\ rq[p].opts.companyApiKey = "ck" /\ rq[p].carried[HApiKey] = "ck"
        /\ rq[q].opts.companyApiKey = "" /\ apiKey = "dk" /\ rq[q].carried[HApiKey] = "dk"

\* C19: every header the caller supplies in options.headers, x-oway-api-key
\* included, is sent with the caller's value.
C19_CallerHeadersWin ==
    \A p \in DOMAIN rq :
        rq[p].sent > 0 =>
            \A n \in DOMAIN rq[p].opts.headers : rq[p].carried[n] = rq[p].opts.headers[n]

\* C19 (amended): a caller-supplied Content-Type, Authorization or
\* x-request-id is the value sent; a caller-supplied x-oway-api-key is sent
\* only when no company key is resolved, otherwise the resolved key is sent;
\* the headers the caller does not supply carry the values the SDK composes.
C19_CallerHeadersExceptKey ==
    \A p \in DOMAIN rq :
        rq[p].sent > 0 =>
            /\ \A n \in DOMAIN rq[p].opts.headers :
                  IF n = HApiKey /\ ExpectedKey(rq[p].opts) # ""
                  THEN rq[p].carried[n] = ExpectedKey(rq[p].opts)
                  ELSE rq[p].carried[n] = rq[p].opts.headers[n]
            /\ (HContentType \notin DOMAIN rq[p].opts.headers
                    => rq[p].carried[HContentType] = "application/json")
            /\ (HAuthorization \notin DOMAIN rq[p].opts.headers
                    => rq[p].carried[HAuthorization] = Bearer(rq[p].token))
            /\ (HRequestId \notin DOMAIN rq[p].opts.headers
                    => rq[p].carried[HRequestId] = rq[p].requestId)

\* A call that supplied both a per-call key and an x-oway-api-key header was
\* sent with the per-call key.
C19_Witness ==
    \E p \in DOMAIN rq :
        /\ rq[p].sent > 0
        /\ HApiKey \in DOMAIN rq[p].opts.headers
        /\ rq[p].opts.companyApiKey = "ck"
        /\ rq[p].carried[HApiKey] = "ck"
        /\ rq[p].opts.headers[HApiKey] = "hk"

\* C20: a well-formed token response in either casing makes the refresh
\* succeed with the token of the response, sets the expiry to now plus its
\* lifetime in seconds, and the call that started the refresh resolves to
\* that token.
C20_BothCasingsAccepted ==
    /\ [][\A r \in DOMAIN refreshes :
            (r \in DOMAIN refreshes' /\ refreshes[r].state = "inflight"
                /\ refreshes'[r].state # "inflight"
                /\ WellFormedTokenResponse(refreshes'[r].resp))
                => /\ refreshes'[r].state = "fulfilled"
                   /\ refreshes'[r].tok = refreshes'[r].resp.tok
                   /\ tokenExpiry' = now + refreshes'[r].resp.exp * 1000]_vars
    /\ [](\A p \in DOMAIN c :
            (c[p].pc = "tokDone" /\ c[p].via = "refresh"
                /\ WellFormedTokenResponse(refreshes[c[p].ref].resp))
                => c[p].result = OkResult(refreshes[c[p].ref].resp.tok))

\* ---------------------------------------------------------------- C21
CredentialsMissing == cfg.clientId = NoCredential \/ cfg.clientSecret = NoCredential

NothingSent ==
    /\ refreshes = <<>>
    /\ tokInFlight = 0
    /\ \A p \in DOMAIN c : c[p] = IdleCall /\ rq[p].sent = 0

\* C21: constructing a client whose clientId or clientSecret is missing or
\* empty fails in the constructor itself: no client comes out of it, and no
\* request is ever sent to the token endpoint or to a resource endpoint.
C21_MissingCredentialsRejected ==
    CredentialsMissing =>
        /\ cfg.state \in {"new", "failed"}
        /\ NothingSent

C21_Witness ==
    /\ cfg.state = "failed"
    /\ cfg.clientId # NoCredential
    /\ cfg.clientSecret = NoCredential

\* ---------------------------------------------------------------- C22
\* The words the claim lists, compared case-insensitively.
ClaimedWords == { <<"a", "p", "i", "k", "e", "y">>,
                  <<"t", "o", "k", "e", "n">>,
                  <<"a", "u", "t", "h", "o", "r", "i", "z", "a", "t", "i", "o", "n">>,
                  <<"p", "a", "s", "s", "w", "o", "r", "d">>,
                  <<"s", "e", "c", "r", "e", "t">> }
ClaimedSensitive(key) == \E w \in ClaimedWords : Includes(ToLowerCase(key), w)

RECURSIVE ClaimedSanitized(_)
ClaimedSanitized(obj) ==
    IF ~IsObject(obj) THEN obj
    ELSE [obj EXCEPT !.f =
            [i \in DOMAIN obj.f |->
                <<obj.f[i][1],
                  IF ClaimedSensitive(obj.f[i][1]) THEN Redacted
                  ELSE ClaimedSanitized(obj.f[i][2])>>]]

\* C22: sanitizeForLogging returns its argument with the value of every
\* field whose key contains apikey, token, authorization, password or secret
\* (in any letter case) replaced by '[REDACTED]', at every nesting depth of
\* objects and arrays, and with everything else copied unchanged.
C22_SensitiveKeysRedacted ==
    san.done => san.out = ClaimedSanitized(san.in)

\* ---------------------------------------------------------------- C23
\* A logged value that is, or holds at some depth, one of the secret values.
RECURSIVE HoldsSecret(_)
HoldsSecret(x) ==
    IF IsObject(x) THEN \E i \in DOMAIN x.f : HoldsSecret(x.f[i][2])
    ELSE x.v \in SecretValues

\* C23: no log event, whatever its level and whether it goes to the
\* configured logger, the console or standard output, holds the client
\* secret, a tenant key or a bearer token, and the events of every step are
\* the events the same step emits in a run that differs in these secrets only.
C23_NoSecretInLogs ==
    /\ \A i \in DOMAIN logged.run :
          /\ ~HoldsSecret(logged.run[i].meta)
          /\ logged.run[i].msg \notin SecretValues
    /\ logged.twin = logged.run

C23_Witness ==
    \E p \in DOMAIN rq :
        /\ c[p].pc = "fetching"
        /\ rq[p].token \in SecretValues
        /\ HApiKey \in DOMAIN rq[p].carried
        /\ rq[p].carried[HApiKey] \in SecretValues
        /\ cfg.clientSecret \in SecretValues
        /\ Len(logged.run) = 1
        /\ logged.run[1].level = "debug"
        /\ logged.run[1].meta.f[1][2] = Prim(rq[p].requestId)

\* ---------------------------------------------------------------- C24
\* The events of the step just taken hold one of the given level and message.
EmitsNext(level, message) ==
    \E i \in DOMAIN logged'.run :
        logged'.run[i].level = level /\ logged'.run[i].msg = message
EmitsLevelNext(level) == \E i \in DOMAIN logged'.run : logged'.run[i].level = level

AttemptFails(p) == AttemptEnds(p) /\ rq'[p].res # "ok"
RequestRejectsAfterLoop(p) ==
    /\ rq[p].res = "none" /\ rq'[p].res = "err"
    /\ c[p].pc \in {"fetching", "reading", "sleeping"} \/ c[p].result.kind = "ok"

\* C24 as stated: with a logger configured, every failed attempt of
\* request(), whatever made it fail, emits a warn-level event, and request()
\* emits an error-level event before it rejects.
C24_WarnPerFailedAttempt ==
    [][\A p \in DOMAIN rq :
          cfg.logger =>
            /\ AttemptFails(p) => EmitsLevelNext("warn")
            /\ RequestRejectsAfterLoop(p) => EmitsLevelNext("error")]_vars

\* C24: with a logger configured, every failed attempt is logged before
\* request() acts on it.  An attempt answered by an error status whose body
\* is not the JSON value null emits the warning 'Request failed'; an attempt
\* followed by a retry emits the warning 'Retrying request'; an attempt that
\* ends the call emits 'Non-retryable error', or 'Max retries exceeded' and
\* then 'Request failed', at error level before the call rejects; a transport
\* failure or timeout on the last attempt emits no warning.  A failed token
\* refresh is logged by refreshToken at error level.
C24_FailuresAreLogged ==
    /\ [][\A p \in DOMAIN rq :
            (cfg.logger /\ AttemptFails(p)) =>
              /\ (rq'[p].last.kind = "http" /\ ~ResponseOk(rq'[p].last.status)
                    /\ rq'[p].last.body # "null")
                    => logged'.run[1].level = "warn" /\ logged'.run[1].msg = "Request failed"
              /\ c'[p].pc = "sleeping" => EmitsNext("warn", "Retrying request")
              /\ rq'[p].res = "err" =>
                    \/ EmitsNext("error", "Non-retryable error")
                    \/ /\ EmitsNext("error", "Max retries exceeded")
                       /\ logged'.run[Len(logged'.run)].level = "error"
                       /\ logged'.run[Len(logged'.run)].msg = "Request failed"
              /\ (NoStatusFailure(rq'[p].last) /\ rq'[p].res = "err")
                    => ~EmitsLevelNext("warn")]_vars
    /\ [][\A p \in DOMAIN rq :
            (cfg.logger /\ RequestRejectsAfterLoop(p)) => EmitsLevelNext("error")]_vars
    /\ [][\A r \in DOMAIN refreshes :
            (cfg.logger /\ lang = "ts" /\ refreshes[r].state = "inflight"
               /\ refreshes'[r].state = "rejected")
                => EmitsNext("error", "Token refresh failed")]_vars

\* A call has just been rejected after a timeout on its last attempt, with
\* two error events and no warning.
C24_Witness ==
    \E p \in DOMAIN rq :
        /\ cfg.logger
        /\ c[p].pc = "reqDone"
        /\ rq[p].res = "err"
        /\ rq[p].attempt = 1
        /\ rq[p].last.kind = "timeout"
        /\ Len(logged.run) = 2
        /\ logged.run[1].msg = "Max retries exceeded"
        /\ logged.run[2].level = "error"

\* ---------------------------------------------------------------- C25
\* An attempt is under way: its fetch or the reading of its body is pending.
AttemptUnderWay(p) == c[p].pc \in {"fetching", "reading"}

\* C25: every attempt arms a timeout of its own when it is sent, and that
\* timeout covers the attempt to its end, the reading of the response body
\* included: no attempt is still under way after config.timeout milliseconds.
C25_TimeoutCoversWholeAttempt ==
    \A p \in DOMAIN rq :
        AttemptUnderWay(p) => rq[p].timer = "armed" /\ ~rq[p].overdue

\* ---------------------------------------------------------------- C26
\* The call has got past token acquisition and past the sending of its
\* request, if it sends one.
PastSending(p) == c[p].pc \in {"fetching", "reading", "sleeping", "reqDone"}

\* Token requests sent by call p.
RefreshesBy(p) == {r \in DOMAIN refreshes : refreshes[r].by = p}

\* C26: a request made on a client with no cached token sends exactly one
\* POST to the token URL, with the JSON body {clientId, clientSecret}, before
\* anything goes to the resource endpoint, and once the token endpoint has
\* answered with a token the resource request is sent with Authorization:
\* Bearer followed by that token.
C26_TokenPostThenBearer ==
    \A r \in DOMAIN refreshes :
        refreshes[r].preTok = NoTok =>
            /\ refreshes[r].req.method = "POST"
            /\ refreshes[r].req.url = TokenUrl
            /\ refreshes[r].req.body = [clientId |-> cfg.clientId, clientSecret |-> cfg.clientSecret]
            /\ Cardinality(RefreshesBy(refreshes[r].by)) = 1
            /\ refreshes[r].state = "inflight" => rq[refreshes[r].by].sent = 0
            /\ (WellFormedTokenResponse(refreshes[r].resp) /\ PastSending(refreshes[r].by)) =>
                  /\ rq[refreshes[r].by].sent >= 1
                  /\ "Authorization" \in DOMAIN rq[refreshes[r].by].carried
                  /\ rq[refreshes[r].by].carried["Authorization"] = Bearer(refreshes[r].resp.tok)

\* The request sent last to the token endpoint was answered with success, its
\* token is stored, and no refresh is pending.
FetchSucceeded ==
    /\ Len(refreshes) > 0
    /\ refreshes[Len(refreshes)].state = "fulfilled"
    /\ c[refreshes[Len(refreshes)].by].pc = "tokDone"
    /\ tokenRefreshPromise = NULL /\ tokenMutex = NULL

FetchedAt == refreshes[Len(refreshes)].at

\* The casing of the token answer that the running client decodes.
OwnShape == IF lang = "ts" THEN "camel" ELSE "snake"

\* The call of p returns the cached token and nothing goes to the endpoint.
Reuses(p) ==
    /\ c'[p].pc = "tokDone" /\ c'[p].via = "cache"
    /\ c'[p].result = OkResult(accessToken)
    /\ refreshes' = refreshes /\ tokInFlight' = tokInFlight

\* The call of p heads for the token endpoint: the TypeScript call sends the
\* token request in the same step, the goroutine queues for the write lock.
HeadsForEndpoint(p) ==
    IF lang = "ts"
      THEN /\ Len(refreshes') = Len(refreshes) + 1
           /\ refreshes'[Len(refreshes')].by = p
      ELSE c'[p].pc = "wantLock" /\ refreshes' = refreshes

\* C27 as stated: after a successful fetch, a call made before the token is
\* within five minutes of its expiry reuses the cached token and sends no
\* token request, whatever the lifetime; in particular a call made
\* immediately after the fetch sends none.
C27_ReuseWhateverLifetime ==
    [][\A p \in DOMAIN c :
          (Starts(p) /\ FetchSucceeded /\ (now = FetchedAt \/ now + 300000 < tokenExpiry))
              => Reuses(p)]_vars

\* C27 (amended): after a successful fetch the stored expiry is the fetch
\* time plus the returned lifetime in seconds, and a following call reuses
\* the cached token without a token request exactly when the stored token is
\* not empty and the call is made more than five minutes before that expiry;
\* any other call heads for the token endpoint, and a goroutine that gets the
\* write lock while the token is still not valid sends a new token request.
C27_ReuseOutsideMarginOnly ==
    /\ []((FetchSucceeded
            /\ WellFormedTokenResponse(refreshes[Len(refreshes)].resp)
            /\ refreshes[Len(refreshes)].resp.shape = OwnShape)
            => /\ accessToken = refreshes[Len(refreshes)].resp.tok
               /\ tokenExpiry = FetchedAt + refreshes[Len(refreshes)].resp.exp * 1000)
    /\ [][\A p \in DOMAIN c :
            (Starts(p) /\ FetchSucceeded)
                => IF accessToken # NoTok /\ now + 300000 < tokenExpiry
                     THEN Reuses(p)
                     ELSE HeadsForEndpoint(p)]_vars
    /\ [][\A p \in DOMAIN c :
            (lang = "go" /\ c[p].pc = "wantLock" /\ c'[p].pc # "wantLock"
               /\ ~(accessToken # NoTok /\ now + 300000 < tokenExpiry))
                => /\ Len(refreshes') = Len(refreshes) + 1
                   /\ refreshes'[Len(refreshes')].by = p]_vars

\* A call made at the time of a fetch that returned a lifetime of 301 s has
\* returned the cached token: the only request sent is that fetch.
C27_Witness ==
    \E p \in DOMAIN c :
        /\ c[p].pc = "tokDone" /\ c[p].via = "cache"
        /\ Len(refreshes) = 1 /\ tokInFlight = 0
        /\ refreshes[1].resp.exp = 301
        /\ refreshes[1].at = now
        /\ c[p].result = OkResult(refreshes[1].resp.tok)

\* Goroutine q was inside getAccessToken with no valid token cached while
\* the request of goroutine p was in flight: q had found no valid token and
\* was waiting for the write lock when the answer arrived, and both calls
\* have returned.
HerdedBehind(q, p) ==
    /\ p # q
    /\ c[p].pc = "tokDone" /\ c[p].via = "refresh"
    /\ c[q].pc = "tokDone" /\ c[q].via \in {"refresh", "recheck"}
    /\ q \in refreshes[c[p].ref].herd

\* C28: Go: of the goroutines that call getAccessToken concurrently with no
\* valid token cached exactly one calls the token endpoint; the others
\* return the token it stored without sending a request, and all get the
\* same token.
C28_OneGoroutineFetches ==
    lang = "go" =>
        \A p, q \in DOMAIN c :
            HerdedBehind(q, p)
                => /\ c[q].via = "recheck"
                   /\ \A r \in DOMAIN refreshes : refreshes[r].by # q
                   /\ c[p].result.kind = "ok"
                   /\ c[q].result = c[p].result
                   /\ c[q].result.tok = accessToken

\* C30: Go: when the token endpoint fails while several goroutines are
\* inside getAccessToken with no valid token cached, one request is sent and
\* every one of them receives its failure; none sends a request of its own.
C30_FailureSharedByHerd ==
    lang = "go" =>
        \A p, q \in DOMAIN c :
            (HerdedBehind(q, p) /\ refreshes[c[p].ref].state = "rejected")
                => /\ \A r \in DOMAIN refreshes : refreshes[r].by # q
                   /\ c[q].result = ErrResult(refreshes[c[p].ref].err)

\* A 200 answer of the token endpoint that the Go client cannot use: the body
\* is not JSON, or access_token or expires_in is missing from it.
GoAnswerUnusable(rec) ==
    /\ rec.state # "inflight"
    /\ ~(WellFormedTokenResponse(rec.resp) /\ rec.resp.shape = "snake")

\* C29: Go: a token answer with success status whose body is not valid JSON
\* or lacks access_token or expires_in makes getAccessToken return an error;
\* no token is cached and no request is sent with an empty bearer token.
C29_MalformedTokenAnswerIsAnError ==
    lang = "go" =>
        /\ \A r \in DOMAIN refreshes :
              GoAnswerUnusable(refreshes[r])
                  => /\ refreshes[r].state = "rejected"
                     /\ (c[refreshes[r].by].pc = "tokDone" /\ c[refreshes[r].by].ref = r)
                            => c[refreshes[r].by].result.kind = "err"
        /\ (accessToken = NoTok => tokenExpiry = 0)
        /\ \A p \in DOMAIN rq :
              "Authorization" \in DOMAIN rq[p].carried
                  => rq[p].carried["Authorization"] # Bearer(NoTok)

\* C31: when a tool call fails with an OwayError, the failure payload of
\* executeTool keeps the error's message, code, statusCode and requestId.
C31_ToolPayloadKeepsClassification ==
    (api.pc = "toolDone" /\ api.ret.kind = "err" /\ api.ret.err.isOway)
        => /\ api.payload.kind = "failure"
           /\ api.payload.error = api.ret.err.msg
           /\ api.payload.code = api.ret.err.code
           /\ api.payload.requestId = api.ret.err.rid
           /\ "statusCode" \in DOMAIN api.payload
           /\ api.payload.statusCode = api.ret.err.status

\* C33: Go: when the API answers a facade method with a non-success status,
\* the error returned is an *oway.Error that carries that status code.
C33_GoFacadeErrorIsTyped ==
    (lang = "go" /\ api.pc = "returned" /\ api.ans.kind = "http" /\ ~ResponseOk(api.ans.status))
        => /\ api.ret.kind = "err"
           /\ api.ret.err.isOway
           /\ api.ret.err.status = api.ans.status

\* C34: every method of the Quotes and Shipments facades issues exactly one
\* executor call, whose per-call tenant key is the companyApiKey argument
\* (undefined when the argument was omitted).
C34_FacadeForwardsKey ==
    (lang = "ts" /\ api.method # "")
        => /\ Len(api.calls) = 1
           /\ api.calls[1].companyApiKey = api.arg
           /\ api.calls[1].method = FacadeVerb(api.method)
           /\ api.calls[1].path = FacadePath(api.method)
           /\ rq[ApiCaller].opts.companyApiKey = api.arg
           /\ rq[ApiCaller].method = FacadeVerb(api.method)
           /\ rq[ApiCaller].path = FacadePath(api.method)
           /\ (rq[ApiCaller].sent > 0 /\ api.arg # NoKey)
                 => rq[ApiCaller].carried[HApiKey] = api.arg

\* shipments.tracking was called with a company key and has settled with a
\* value after one executor call, whose request carried that key.
C34_Witness ==
    /\ lang = "ts"
    /\ api.pc = "returned"
    /\ api.ret.kind = "ok"
    /\ api.method = "shipments.tracking"
    /\ api.arg = "ck"
    /\ Len(api.calls) = 1
    /\ api.calls[1].companyApiKey = "ck"
    /\ rq[ApiCaller].sent = 1
    /\ rq[ApiCaller].carried[HApiKey] = "ck"

\* C32: when no tokenUrl is configured, the token endpoint a client uses is
\* its base URL followed by /v1/auth/token, in both clients; a client
\* configured with the production base URL requests its token from the
\* production host.
C32_TokenUrlDerivedFromBaseUrl ==
    (cfg.state = "built" /\ cfg.argTokenUrl = NoTokenUrl)
        => /\ cfg.tokenUrl = Url(cfg.baseUrl, TokenPath)
           /\ cfg.argBaseUrl = Production =>
                 \A r \in DOMAIN refreshes : refreshes[r].req.url = Url(Production, TokenPath)

\* The token fields of the first client instance.
TokenState == <<accessToken, tokenExpiry, tokenRefreshPromise, tokenMutex>>

\* A step taken inside getAccessToken / refreshToken of the first instance:
\* a call enters or leaves getAccessToken, or a token request is sent or
\* answered.
TokenCallStep ==
    \/ refreshes' # refreshes
    \/ \E p \in DOMAIN c :
          /\ c[p].pc \in {"idle", "awaitRefresh", "awaitJoin", "wantLock", "refreshing"}
          /\ c'[p].pc # c[p].pc

\* C35: after construction no operation changes the configuration or the
\* credentials of a client; its cached token, expiry and pending marker
\* change only inside getAccessToken/refreshToken; and no operation on one
\* instance changes the token state of another instance.
C35_OnlyTokenStateChanges ==
    [][/\ cfg.state = "built" => (cfg' = cfg /\ apiKey' = apiKey /\ maxRetries' = maxRetries)
       /\ TokenState' # TokenState => (TokenCallStep /\ peer' = peer)
       /\ peer' # peer => (TokenState' = TokenState /\ refreshes' = refreshes /\ c' = c)]_vars

\* Both instances hold a token of their own, and the first one has sent a
\* resource request with its token.
C35_Witness ==
    /\ accessToken = "tokA"
    /\ peer.accessToken = "tokB"
    /\ peer.tokenExpiry # tokenExpiry
    /\ \E p \in DOMAIN rq : rq[p].sent >= 1

\* C36: every request() call eventually resolves or rejects, even when the
\* resource endpoint or the token endpoint never answers; a token request
\* that is never answered does not keep the pending marker set forever.
C36_EveryRequestSettles ==
    /\ \A p \in ReqCallers : (c[p].pc # "idle") ~> (c[p].pc = "reqDone")
    /\ (tokenRefreshPromise # NULL) ~> (tokenRefreshPromise = NULL)

\* C37: when token acquisition fails, request() rejects with the
\* authentication error itself, having sent nothing to the resource endpoint,
\* slept no backoff and started no second token request, whatever maxRetries
\* is and whatever the status of the token endpoint's answer.
C37_TokenFailureRejectsAtOnce ==
    \A p \in ReqCallers :
        (rq[p].res = "err" /\ rq[p].err.src # NULL)
            => /\ c[p].pc = "reqDone"
               /\ refreshes[rq[p].err.src].state = "rejected"
               /\ rq[p].err = refreshes[rq[p].err.src].err
               /\ rq[p].err.code \in {"AUTH_FAILED", "AUTH_ERROR", "AUTH_INVALID_RESPONSE"}
               /\ rq[p].sent = 0
               /\ rq[p].attempt = 0
               /\ rq[p].sleeps = <<>>
               /\ Cardinality({r \in DOMAIN refreshes : refreshes[r].by = p}) <= 1

C37_Witness ==
    \E p \in ReqCallers :
        /\ c[p].pc = "reqDone"
        /\ rq[p].res = "err"
        /\ rq[p].err.src # NULL
        /\ rq[p].err.status = 500
        /\ IsRetryable(rq[p].err.status)
        /\ maxRetries = 3

\* C38: the x-request-id carried by the attempts of a call is the requestId
\* the caller supplied, or else the one id generated for the call; and the
\* error raised for a response that echoes no request id carries that id.
C38_OneRequestIdPerCall ==
    \A p \in DOMAIN rq :
        rq[p].sent > 0
            => /\ rq[p].carried[HRequestId] =
                      (IF rq[p].opts.requestId # NoId THEN rq[p].opts.requestId
                       ELSE rq[p].requestId)
               /\ (/\ c[p].pc = "reqDone"
                   /\ rq[p].res = "err"
                   /\ rq[p].last.kind = "http"
                   /\ ~ResponseOk(rq[p].last.status)
                   /\ rq[p].last.rid = NoId)
                      => rq[p].err.rid = rq[p].carried[HRequestId]

\* The refresh whose answer was stored last.
LastFulfilled ==
    LET done == {r \in DOMAIN refreshes : refreshes[r].state = "fulfilled"}
    IN IF done = {} THEN NULL ELSE CHOOSE r \in done : \A s \in done : s <= r

\* The cached token and the cached expiry are those of one token response:
\* the one stored last, or the initial empty pair when none was stored.
PairOfOneResponse ==
    IF LastFulfilled = NULL
    THEN accessToken = NoTok /\ tokenExpiry = 0
    ELSE /\ accessToken = refreshes[LastFulfilled].resp.tok
         /\ tokenExpiry = refreshes[LastFulfilled].at + refreshes[LastFulfilled].resp.exp * 1000

\* C39: TypeScript: whenever no refresh is pending the cached token and the
\* cached expiry come from the same token response, and a call that returns
\* the cached token judged it against the expiry of the response that
\* delivered it.
C39_TokenAndExpiryOfOneResponse ==
    /\ []((lang = "ts" /\ tokenRefreshPromise = NULL) => PairOfOneResponse)
    /\ [][lang = "ts" =>
            \A p \in DOMAIN c :
                (c[p].pc = "idle" /\ c'[p].pc = "tokDone" /\ c'[p].via = "cache")
                    => /\ PairOfOneResponse
                       /\ c'[p].result = OkResult(refreshes[LastFulfilled].resp.tok)]_vars

\* A second response has replaced the first, with another token and another
\* lifetime, and no refresh is pending.
C39_Witness ==
    /\ lang = "ts"
    /\ tokenRefreshPromise = NULL
    /\ Len(refreshes) = 2
    /\ refreshes[1].state = "fulfilled" /\ refreshes[2].state = "fulfilled"
    /\ refreshes[1].resp.tok # refreshes[2].resp.tok
    /\ refreshes[1].resp.exp # refreshes[2].resp.exp
    /\ accessToken = refreshes[2].resp.tok

\* C40: the two classifiers are the same function of the status: whatever
\* the statusCode field holds (nothing or zero, a 1xx-3xx code, a code past
\* 599), OwayError.isRetryable and Error.IsRetryable give the same answer.
C40_ClassifiersAgree ==
    cls.done => (cls.ts <=> cls.go)

\* A status past 599 was classified: both classifiers retry it.
C40_Witness ==
    cls.done /\ cls.status >= 600 /\ cls.ts /\ cls.go
====
